---------------------------- MODULE Spec2Model ----------------------------
(***************************************************************************)
(* A model of the face-recognition numeric kernel (matrix.c) and of the    *)
(* database orchestrator (database.c).                                     *)
(*                                                                         *)
(* precision_t (double) values are modelled as exact rationals <<n, d>>    *)
(* in lowest terms with d > 0; <<0, 0>> stands for NaN.  Square roots that *)
(* are not rational are kept symbolic inside a distance value, see Dist.   *)
(* Matrices are records [rows, cols, data] with data in column-major       *)
(* order, as in matrix_t.                                                  *)
(***************************************************************************)
EXTENDS Integers, Sequences, FiniteSets, TLC

VARIABLES
    nn,     \* nearest_neighbor call: inputs, position, returned index
    db,     \* database_t and the position of the process using it
    fs,     \* the two persisted artifacts (manifest text, binary blob)
    hist,   \* history of the database operations performed
    rq,     \* db_recognize: the queries answered so far
    gk      \* the kernel's client: its matrices, the call made, the result

vars == <<nn, db, fs, hist, rq, gk>>

-----------------------------------------------------------------------------
(* Arithmetic of precision_t *)

Abs(x) == IF x < 0 THEN -x ELSE x

RECURSIVE GCD(_, _)
GCD(a, b) == IF b = 0 THEN a ELSE GCD(b, a % b)

NaN == <<0, 0>>

IsNaN(a) == a[2] = 0

Rat(n, d) ==
    IF d = 0 THEN NaN
    ELSE LET g == GCD(Abs(n), Abs(d))
             s == IF d < 0 THEN -1 ELSE 1
         IN  <<(s * n) \div g, (s * d) \div g>>

Zero == <<0, 1>>

One == <<1, 1>>

MinusOne == <<-1, 1>>

RInt(n) == <<n, 1>>

RAdd(a, b) ==
    IF IsNaN(a) \/ IsNaN(b) THEN NaN
    ELSE Rat(a[1] * b[2] + b[1] * a[2], a[2] * b[2])

RNeg(a) == IF IsNaN(a) THEN NaN ELSE <<-a[1], a[2]>>

RSub(a, b) == RAdd(a, RNeg(b))

RMul(a, b) ==
    IF IsNaN(a) \/ IsNaN(b) THEN NaN
    ELSE Rat(a[1] * b[1], a[2] * b[2])

\* x / 0 with x # 0 is +-inf in C; no modelled computation divides a
\* nonzero value by zero, so only 0 / 0 = NaN is represented.
RDiv(a, b) ==
    IF IsNaN(a) \/ IsNaN(b) THEN NaN
    ELSE Rat(a[1] * b[2], a[2] * b[1])

\* a < b on doubles: false as soon as one side is NaN
RLt(a, b) ==
    /\ ~IsNaN(a)
    /\ ~IsNaN(b)
    /\ a[1] * b[2] < b[1] * a[2]

RSign(a) == IF a[1] < 0 THEN -1 ELSE IF a[1] > 0 THEN 1 ELSE 0

-----------------------------------------------------------------------------
(* matrix_t *)

NULL == [rows |-> -1, cols |-> -1, data |-> <<>>]

\* elem(M, i, j) with 0-based i, j: M->data[j * M->rows + i]
elem(M, i, j) == M.data[j * M.rows + i + 1]

m_zeros(r, c) == [rows |-> r, cols |-> c, data |-> [k \in 1 .. r * c |-> Zero]]

\* column j of M as a sequence of M->rows values
Column(M, j) == [i \in 1 .. M.rows |-> elem(M, i - 1, j)]

RECURSIVE Sum(_)
\* s[1] + s[2] + ... accumulated from 0, left to right
Sum(s) ==
    IF s = <<>> THEN Zero
    ELSE RAdd(Sum(SubSeq(s, 1, Len(s) - 1)), s[Len(s)])

-----------------------------------------------------------------------------
(* Distance metrics.  A distance is the real number q / sqrt(r), kept as   *)
(* the pair of rationals [q, r]: L2 has r = 1, COS has q = -(x . y) and    *)
(* r = |x|^2 * |y|^2.  r = 0 is the 0 / 0 of a zero-norm vector: NaN.      *)

DIsNaN(a) == IsNaN(a.q) \/ IsNaN(a.r) \/ a.r = Zero

\* a == b on doubles
DEq(a, b) ==
    /\ ~DIsNaN(a)
    /\ ~DIsNaN(b)
    /\ RSign(a.q) = RSign(b.q)
    /\ RMul(RMul(a.q, a.q), b.r) = RMul(RMul(b.q, b.q), a.r)

\* a < b on doubles
DLt(a, b) ==
    /\ ~DIsNaN(a)
    /\ ~DIsNaN(b)
    /\ LET sa == RSign(a.q)
           sb == RSign(b.q)
           la == RMul(RMul(a.q, a.q), b.r)
           lb == RMul(RMul(b.q, b.q), a.r)
       IN  \/ sa < sb
           \/ sa = 1 /\ sb = 1 /\ RLt(la, lb)
           \/ sa = -1 /\ sb = -1 /\ RLt(lb, la)

DLe(a, b) == DLt(a, b) \/ DEq(a, b)

DConst(x) == [q |-> x, r |-> One]

\* the differences summed without being squared
m_dist_L2_unsquared(A, i, B, j) ==
    DConst(Sum([k \in 1 .. A.rows |-> RSub(elem(A, k - 1, i), elem(B, k - 1, j))]))

m_dist_L2(A, i, B, j) ==
    DConst(Sum([k \in 1 .. A.rows |->
        LET diff == RSub(elem(A, k - 1, i), elem(B, k - 1, j))
        IN  RMul(diff, diff)]))

m_dist_COS(A, i, B, j) ==
    LET x_dot_y == Sum([k \in 1 .. A.rows |-> RMul(elem(A, k - 1, i), elem(B, k - 1, j))])
        abs_x == Sum([k \in 1 .. A.rows |-> RMul(elem(A, k - 1, i), elem(A, k - 1, i))])
        abs_y == Sum([k \in 1 .. A.rows |-> RMul(elem(B, k - 1, j), elem(B, k - 1, j))])
    IN  [q |-> RNeg(x_dot_y), r |-> RMul(abs_x, abs_y)]

\* a dist_func_t is modelled by its name
dist_func(f, A, i, B, j) ==
    IF f = "m_dist_COS" THEN m_dist_COS(A, i, B, j) ELSE m_dist_L2(A, i, B, j)

RECURSIVE nn_loop(_, _, _, _, _, _)
\* the loop of nearest_neighbor from column j on
nn_loop(P, P_test, f, j, min_index, min_dist) ==
    IF j >= P.cols THEN min_index
    ELSE LET dist == dist_func(f, P_test, 0, P, j)
         IN  IF DEq(min_dist, DConst(MinusOne)) \/ DLt(dist, min_dist)
             THEN nn_loop(P, P_test, f, j + 1, j, dist)
             ELSE nn_loop(P, P_test, f, j + 1, min_index, min_dist)

nearest_neighbor(P, P_test, f) == nn_loop(P, P_test, f, 0, -1, DConst(MinusOne))

-----------------------------------------------------------------------------
(* Kernel operations used by the database (CPU build) *)

\* malloc'ed, not initialised: junk is what the memory happens to hold
m_initialize(r, c, junk) == [rows |-> r, cols |-> c, data |-> [k \in 1 .. r * c |-> junk]]

m_mean_column(M) ==
    [rows |-> M.rows, cols |-> 1,
     data |-> [j \in 1 .. M.rows |->
        RDiv(Sum([i \in 1 .. M.cols |-> elem(M, j - 1, i - 1)]), RInt(M.cols))]]

\* M with a subtracted from each column (the C code updates M in place)
m_subtract_columns(M, a) ==
    [M EXCEPT !.data = [k \in 1 .. M.rows * M.cols |->
        RSub(M.data[k], elem(a, (k - 1) % M.rows, 0))]]

\* A with B subtracted (the C code updates A in place)
m_subtract(A, B) ==
    [A EXCEPT !.data = [k \in 1 .. A.rows * A.cols |->
        RSub(A.data[k], elem(B, (k - 1) % A.rows, (k - 1) \div A.rows))]]

m_transpose(M) ==
    [rows |-> M.cols, cols |-> M.rows,
     data |-> [k \in 1 .. M.rows * M.cols |->
        elem(M, (k - 1) \div M.cols, (k - 1) % M.cols)]]

\* C := 1 * A * B + 1 * C with C a matrix of ones
m_product_accumulating(A, B) ==
    [rows |-> A.rows, cols |-> B.cols,
     data |-> [k \in 1 .. A.rows * B.cols |->
        LET i == (k - 1) % A.rows
            j == (k - 1) \div A.rows
        IN  RAdd(One, Sum([l \in 1 .. A.cols |-> RMul(elem(A, i, l - 1), elem(B, l - 1, j))]))]]

\* C := 1 * A * B + 0 * C with C = m_zeros(A->rows, B->cols)
m_product(A, B) ==
    [rows |-> A.rows, cols |-> B.cols,
     data |-> [k \in 1 .. A.rows * B.cols |->
        LET i == (k - 1) % A.rows
            j == (k - 1) \div A.rows
        IN  Sum([l \in 1 .. A.cols |-> RMul(elem(A, i, l - 1), elem(B, l - 1, j))])]]

\* an image read that adds the pixels to what the column holds
m_image_read_adding(M, col, image) ==
    [M EXCEPT !.data = [k \in 1 .. M.rows * M.cols |->
        IF (k - 1) \div M.rows = col
        THEN RAdd(M.data[k], RInt(image.pixels[((k - 1) % M.rows) + 1]))
        ELSE M.data[k]]]

\* M with column col read from the image's pixel buffer
m_image_read(M, col, image) ==
    [M EXCEPT !.data = [k \in 1 .. M.rows * M.cols |->
        IF (k - 1) \div M.rows = col
        THEN RInt(image.pixels[((k - 1) % M.rows) + 1])
        ELSE M.data[k]]]

-----------------------------------------------------------------------------
(* Bounds of the model *)

\* pixel values of the images are 0 .. MaxPix
MaxPix == 2

\* images are ImgSide x ImgSide, one channel
ImgSide == 2

\* a test directory holds at most MaxQueries images
MaxQueries == 1

-----------------------------------------------------------------------------
(* External collaborators: images, directory enumeration, feature layers *)

\* a uniform image, every pixel equal to pix
Image(pix) ==
    [channels |-> 1, height |-> ImgSide, width |-> ImgSide,
     pixels |-> [k \in 1 .. ImgSide * ImgSide |-> pix]]

Digits == <<"0", "1", "2", "3", "4", "5", "6", "7", "8", "9">>

\* the file of class cls and index idx under path: "<path><cls>_<idx>"
FileName(path, cls, idx) == path \o <<Digits[cls + 1], "_", Digits[idx + 1]>>

\* the files of a directory in enumeration order; shape[c] is the number of
\* images of class c and pix[k] the pixel value of the k-th file
DirFiles(path, shape, pix) ==
    LET RECURSIVE files(_)
        files(c) ==
            IF c = 0 THEN <<>>
            ELSE LET before == files(c - 1)
                 IN  before \o [i \in 1 .. shape[c] |->
                        [name |-> FileName(path, c, i),
                         cls |-> c,
                         image |-> Image(pix[Len(before) + i])]]
    IN  files(Len(shape))

\* get_directory_rec: the entries and the number of classes
get_directory_rec(dir) ==
    [entries |-> [i \in 1 .. Len(dir) |-> [name |-> dir[i].name, ent_class |-> dir[i].cls]],
     num_classes |-> Cardinality({dir[i].cls : i \in 1 .. Len(dir)})]

\* get_directory: the file names
get_directory(dir) == [i \in 1 .. Len(dir) |-> dir[i].name]

RECURSIVE LastIndexOf(_, _)
\* the last position of character c in s, 0 when there is none
LastIndexOf(s, c) ==
    IF s = <<>> THEN 0
    ELSE IF s[Len(s)] = c THEN Len(s)
    ELSE LastIndexOf(SubSeq(s, 1, Len(s) - 1), c)

RECURSIVE FirstIndexOf(_, _)
\* the first position of character c in s, Len(s) + 1 when there is none
FirstIndexOf(s, c) ==
    IF s = <<>> THEN 1
    ELSE IF s[1] = c THEN 1
    ELSE 1 + FirstIndexOf(Tail(s), c)

rem_base_dir(name) == SubSeq(name, LastIndexOf(name, "/") + 1, Len(name))

\* file names are "{class}_{index}": two names are of the same class when
\* the parts before the first "_" of their base names are equal
is_same_class(a, b) ==
    LET ta == rem_base_dir(a)
        tb == rem_base_dir(b)
    IN  SubSeq(ta, 1, FirstIndexOf(ta, "_") - 1) = SubSeq(tb, 1, FirstIndexOf(tb, "_") - 1)

\* PCA on mean-subtracted uniform images: X = ones * d' has the single
\* eigenvector ones / sqrt(rows) of positive eigenvalue (none when d = 0);
\* sgn is the sign the eigensolver gives it.  rows = ImgSide^2.
PCA(X, sgn) ==
    IF \A k \in 1 .. X.rows * X.cols : X.data[k] = Zero
    THEN [rows |-> X.rows, cols |-> 0, data |-> <<>>]
    ELSE [rows |-> X.rows, cols |-> 1, data |-> [k \in 1 .. X.rows |-> Rat(sgn, ImgSide)]]

\* what LDA and ICA may return: a transposed basis, k x rows with k = 1
ExtBasis(rows) ==
    {[rows |-> 1, cols |-> rows, data |-> [k \in 1 .. rows |-> IF k = 1 THEN RInt(s) ELSE Zero]] :
        s \in {-1, 1}}

-----------------------------------------------------------------------------
(* Text and binary streams *)

IsSpace(c) == c \in {" ", "\n", "\t"}

IsDigit(c) == \E k \in 1 .. 10 : Digits[k] = c

DigitVal(c) == (CHOOSE k \in 1 .. 10 : Digits[k] = c) - 1

RECURSIVE ToDecimal(_)
\* printf("%d", n)
ToDecimal(n) ==
    IF n < 0 THEN <<"-">> \o ToDecimal(-n)
    ELSE IF n < 10 THEN <<Digits[n + 1]>>
    ELSE ToDecimal(n \div 10) \o <<Digits[(n % 10) + 1]>>

RECURSIVE SkipSpace(_, _)
\* the first position from pos on that holds no white space
SkipSpace(text, pos) ==
    IF pos <= Len(text) /\ IsSpace(text[pos]) THEN SkipSpace(text, pos + 1) ELSE pos

RECURSIVE EndOfDigits(_, _)
EndOfDigits(text, pos) ==
    IF pos <= Len(text) /\ IsDigit(text[pos]) THEN EndOfDigits(text, pos + 1) ELSE pos

RECURSIVE EndOfWord(_, _)
EndOfWord(text, pos) ==
    IF pos <= Len(text) /\ ~IsSpace(text[pos]) THEN EndOfWord(text, pos + 1) ELSE pos

RECURSIVE DecimalVal(_)
DecimalVal(ds) ==
    IF ds = <<>> THEN 0
    ELSE 10 * DecimalVal(SubSeq(ds, 1, Len(ds) - 1)) + DigitVal(ds[Len(ds)])

\* fscanf(stream, "%d %s", &ent_class, name) from position pos: a conversion
\* that fails ends the call and leaves its target and the later ones as they
\* were (old)
fscanf_d_s(text, pos, old) ==
    LET p1 == SkipSpace(text, pos)
        neg == p1 <= Len(text) /\ text[p1] = "-"
        p2 == IF neg THEN p1 + 1 ELSE p1
        p3 == EndOfDigits(text, p2)
        val == DecimalVal(SubSeq(text, p2, p3 - 1))
        p4 == SkipSpace(text, p3)
        p5 == EndOfWord(text, p4)
    IN  IF p3 = p2 THEN [ent_class |-> old.ent_class, name |-> old.name, pos |-> p1]
        ELSE IF p5 = p4
        THEN [ent_class |-> IF neg THEN -val ELSE val, name |-> old.name, pos |-> p4]
        ELSE [ent_class |-> IF neg THEN -val ELSE val, name |-> SubSeq(text, p4, p5 - 1), pos |-> p5]

\* fprintf(tset, "%d %s\n", ent_class, name)
fprintf_d_s(e) == ToDecimal(e.ent_class) \o <<" ">> \o e.name \o <<"\n">>

\* m_fwrite: int rows, int cols, rows * cols doubles in column-major order
m_fwrite(M) ==
    <<[ty |-> "int", v |-> M.rows], [ty |-> "int", v |-> M.cols]>>
        \o [k \in 1 .. M.rows * M.cols |-> [ty |-> "double", v |-> M.data[k]]]

\* what the memory fread does not overwrite at the end of the stream holds:
\* the int of a row or column count, the double of an element
JunkMemory == {[int |-> 0, double |-> Zero], [int |-> 1, double |-> RInt(MaxPix)]}

\* the two counts read in the order cols, rows
m_fread_cols_rows(stream, pos, mem) ==
    LET n == Len(stream)
        cols == IF pos <= n THEN stream[pos].v ELSE mem.int
        rows == IF pos + 1 <= n THEN stream[pos + 1].v ELSE mem.int
    IN  [M |-> [rows |-> rows, cols |-> cols,
                data |-> [k \in 1 .. rows * cols |->
                    IF pos + 1 + k <= n THEN stream[pos + 1 + k].v ELSE mem.double]],
         pos |-> IF pos + 2 + rows * cols <= n THEN pos + 2 + rows * cols ELSE n + 1]

\* m_fread from position pos of the stream: the matrix and the next
\* position.  The results of fread are not looked at: past the end of the
\* stream a count or an element stays as mem, what the memory held
m_fread(stream, pos, mem) ==
    LET n == Len(stream)
        rows == IF pos <= n THEN stream[pos].v ELSE mem.int
        cols == IF pos + 1 <= n THEN stream[pos + 1].v ELSE mem.int
    IN  [M |-> [rows |-> rows, cols |-> cols,
                data |-> [k \in 1 .. rows * cols |->
                    IF pos + 1 + k <= n THEN stream[pos + 1 + k].v ELSE mem.double]],
         pos |-> IF pos + 2 + rows * cols <= n THEN pos + 2 + rows * cols ELSE n + 1]

-----------------------------------------------------------------------------
(* database_t *)

Algorithms == <<"PCA", "LDA", "ICA">>

\* calloc'ed: every field 0 / NULL.  pc is the position of the caller:
\* "Empty", "Trained", "Loaded", or "Crashed" when the process died
db_construct(pca, lda, ica) ==
    [pc |-> "Empty", pca |-> pca, lda |-> lda, ica |-> ica,
     num_images |-> 0, num_classes |-> 0, num_dimensions |-> 0,
     entries |-> <<>>, mean_face |-> NULL,
     W_pca_tr |-> NULL, P_pca |-> NULL,
     W_lda_tr |-> NULL, P_lda |-> NULL,
     W_ica_tr |-> NULL, P_ica |-> NULL]

\* db->pca || db->lda || db->ica
AnyAlgorithm(d) == d.pca \/ d.lda \/ d.ica

RECURSIVE read_images(_, _, _)
\* the loop of get_image_matrix over the first n files
read_images(T, dir, n) ==
    IF n = 0 THEN T
    ELSE m_image_read(read_images(T, dir, n - 1), n - 1, dir[n].image)

get_image_matrix(dir) ==
    LET image == dir[1].image
    IN  read_images(m_initialize(image.channels * image.height * image.width, Len(dir), Zero),
                    dir, Len(dir))

\* db_train.  sgn, W_lda_tr, W_ica_tr are what PCA, LDA and ICA answer.
\* With no algorithm enabled W_pca and D are never assigned and the final
\* m_free(W_pca), m_free(D) free uninitialised pointers: ub is what that
\* does, TRUE when the process survives it.
db_train(d, dir, sgn, W_lda_tr, W_ica_tr, ub) ==
    LET listing == get_directory_rec(dir)
        T == get_image_matrix(dir)
        mean_face == m_mean_column(T)
        X == m_subtract_columns(T, mean_face)
        W_pca == PCA(X, sgn)
        W_pca_tr == m_transpose(W_pca)
        d1 == [d EXCEPT !.num_images = Len(dir),
                        !.entries = listing.entries,
                        !.num_classes = listing.num_classes,
                        !.num_dimensions = T.rows,
                        !.mean_face = mean_face]
        d2 == IF AnyAlgorithm(d)
              THEN [d1 EXCEPT !.W_pca_tr = W_pca_tr, !.P_pca = m_product(W_pca_tr, X)]
              ELSE d1
        d3 == IF d.lda
              THEN [d2 EXCEPT !.W_lda_tr = W_lda_tr, !.P_lda = m_product(W_lda_tr, X)]
              ELSE d2
        d4 == IF d.ica
              THEN [d3 EXCEPT !.W_ica_tr = W_ica_tr, !.P_ica = m_product(W_ica_tr, X)]
              ELSE d3
    IN  [d4 EXCEPT !.pc = IF AnyAlgorithm(d) \/ ub THEN "Trained" ELSE "Crashed"]

\* the matrices db_train allocates (by: the call that returned it, at: the
\* local or the field of the database that holds the pointer from then on)
\* and the m_free calls of its cleanup, in order, each with what its
\* argument is at that point
db_train_made(d) ==
    {[by |-> "get_image_matrix", at |-> "X"],
     [by |-> "m_mean_column", at |-> "db->mean_face"]}
    \cup (IF AnyAlgorithm(d)
          THEN {[by |-> "PCA", at |-> "W_pca"], [by |-> "PCA", at |-> "D"],
                [by |-> "m_transpose", at |-> "db->W_pca_tr"],
                [by |-> "m_product", at |-> "db->P_pca"]}
          ELSE {})
    \cup (IF d.lda
          THEN {[by |-> "LDA", at |-> "db->W_lda_tr"], [by |-> "m_product", at |-> "db->P_lda"]}
          ELSE {})
    \cup (IF d.ica
          THEN {[by |-> "ICA", at |-> "db->W_ica_tr"], [by |-> "m_product", at |-> "db->P_ica"]}
          ELSE {})

\* m_free(arg) in db_train: a local never assigned is uninitialised
m_free_local(d, arg) ==
    [arg |-> arg,
     state |-> IF \E m \in db_train_made(d) : m.at = arg THEN "allocated" ELSE "uninitialised"]

\* a cleanup that frees the basis and the eigenvalues only
db_train_memory_keeps_X(d) ==
    [made |-> db_train_made(d),
     m_free |-> <<m_free_local(d, "W_pca"), m_free_local(d, "D")>>]

db_train_memory(d) ==
    [made |-> db_train_made(d),
     m_free |-> <<m_free_local(d, "X"), m_free_local(d, "W_pca"), m_free_local(d, "D")>>]

\* no matrix allocated, none freed
NoMemory == [made |-> {}, m_free |-> <<>>]

\* the matrices db_destruct frees, in order
db_destruct_fields(d) ==
    <<"mean_face">>
        \o (IF AnyAlgorithm(d) THEN <<"W_pca_tr", "P_pca">> ELSE <<>>)
        \o (IF d.lda THEN <<"W_lda_tr", "P_lda">> ELSE <<>>)
        \o (IF d.ica THEN <<"W_ica_tr", "P_ica">> ELSE <<>>)

\* the m_free calls of db_destruct, each with what its argument is
db_destruct_m_free(d) ==
    [n \in 1 .. Len(db_destruct_fields(d)) |->
        [arg |-> db_destruct_fields(d)[n],
         state |-> IF d[db_destruct_fields(d)[n]] = NULL THEN "null" ELSE "allocated"]]

\* db_destruct: m_free of a null pointer reads M->data through it, which
\* ends the process
db_destruct(d) ==
    [d EXCEPT !.pc = IF \E n \in 1 .. Len(db_destruct_m_free(d)) :
                            db_destruct_m_free(d)[n].state = "null"
                     THEN "Crashed" ELSE "Destructed"]

\* the PCA pair written only when the PCA flag itself is on
db_save_fields_own_flag(d) ==
    <<"mean_face">>
        \o (IF d.pca THEN <<"W_pca_tr", "P_pca">> ELSE <<>>)
        \o (IF d.lda THEN <<"W_lda_tr", "P_lda">> ELSE <<>>)
        \o (IF d.ica THEN <<"W_ica_tr", "P_ica">> ELSE <<>>)

\* the matrices db_save writes to the blob, in order
db_save_fields(d) ==
    <<"mean_face">>
        \o (IF AnyAlgorithm(d) THEN <<"W_pca_tr", "P_pca">> ELSE <<>>)
        \o (IF d.lda THEN <<"W_lda_tr", "P_lda">> ELSE <<>>)
        \o (IF d.ica THEN <<"W_ica_tr", "P_ica">> ELSE <<>>)

\* the matrices db_load reads from the blob, in order
db_load_fields(d) ==
    <<"mean_face">>
        \o (IF AnyAlgorithm(d) THEN <<"W_pca_tr", "P_pca">> ELSE <<>>)
        \o (IF d.lda THEN <<"W_lda_tr", "P_lda">> ELSE <<>>)
        \o (IF d.ica THEN <<"W_ica_tr", "P_ica">> ELSE <<>>)

RECURSIVE write_entries(_)
write_entries(entries) ==
    IF entries = <<>> THEN <<>>
    ELSE write_entries(SubSeq(entries, 1, Len(entries) - 1)) \o fprintf_d_s(entries[Len(entries)])

RECURSIVE write_fields(_, _)
write_fields(d, fields) ==
    IF fields = <<>> THEN <<>>
    ELSE write_fields(d, SubSeq(fields, 1, Len(fields) - 1)) \o m_fwrite(d[fields[Len(fields)]])

\* db_save: the manifest and the blob
db_save(d) ==
    [exists |-> TRUE,
     tset |-> write_entries(SubSeq(d.entries, 1, d.num_images)),
     tdata |-> write_fields(d, db_save_fields(d))]

RECURSIVE read_fields(_, _, _, _, _)
\* d with the given fields read from the blob, from position pos on
read_fields(d, fields, tdata, pos, mem) ==
    IF fields = <<>> THEN d
    ELSE LET r == m_fread(tdata, pos, mem)
         IN  read_fields([d EXCEPT ![fields[1]] = r.M], Tail(fields), tdata, r.pos, mem)

RECURSIVE read_entries(_, _, _, _)
\* the loop of db_load over the manifest: n entries from position pos on;
\* junk is what the malloc'ed entry holds before fscanf
read_entries(tset, pos, n, junk) ==
    IF n = 0 THEN <<>>
    ELSE LET e == fscanf_d_s(tset, pos, junk)
         IN  <<[ent_class |-> e.ent_class, name |-> e.name]>>
                \o read_entries(tset, e.pos, n - 1, junk)

\* the row count taken for the column count
db_load_num_images_rows(d) == d.P_pca.rows

\* db->num_images after db_load
db_load_num_images(d) == d.P_pca.cols

\* db_load.  A missing file makes fopen return NULL and the first read of
\* it kills the process; so does db->P_pca->cols when P_pca was not read.
db_load(d, files, junk, mem) ==
    IF ~files.exists THEN [d EXCEPT !.pc = "Crashed"]
    ELSE LET d1 == read_fields(d, db_load_fields(d), files.tdata, 1, mem)
         IN  IF d1.P_pca = NULL THEN [d1 EXCEPT !.pc = "Crashed"]
             ELSE LET n == db_load_num_images(d1)
                  IN  [d1 EXCEPT !.num_images = n,
                                 !.num_dimensions = d1.mean_face.rows,
                                 !.entries = read_entries(files.tset, 1, n, junk),
                                 !.pc = "Loaded"]

\* the rec_params_t of algorithm a in db_recognize
rec_params(d, a) ==
    IF a = "PCA"
    THEN [enabled |-> d.pca, W_tr |-> d.W_pca_tr, P |-> d.P_pca, dist_func |-> "m_dist_L2"]
    ELSE IF a = "LDA"
    THEN [enabled |-> d.lda, W_tr |-> d.W_lda_tr, P |-> d.P_lda, dist_func |-> "m_dist_L2"]
    ELSE [enabled |-> d.ica, W_tr |-> d.W_ica_tr, P |-> d.P_ica, dist_func |-> "m_dist_COS"]

AlgSet == {Algorithms[k] : k \in 1 .. Len(Algorithms)}

\* a tally that counts every query
tally_every_query(num_correct, correct) == num_correct + 1

\* params->num_correct after the query: incremented when the match is of
\* the query's class
tally(num_correct, correct) == IF correct THEN num_correct + 1 ELSE num_correct

\* one iteration of the loop over the test images: T_prev is the buffer T_i
\* as the previous iteration left it, prev the rec_index and tallies the
\* num_correct of each algorithm before it
recognize_one(d, file, T_prev, prev, tallies) ==
    LET T_i == m_subtract(m_image_read(T_prev, 0, file.image), d.mean_face)
        P_test == [a \in AlgSet |->
            IF rec_params(d, a).enabled THEN m_product(rec_params(d, a).W_tr, T_i) ELSE NULL]
        rec_index == [a \in AlgSet |->
            IF rec_params(d, a).enabled
            THEN nearest_neighbor(rec_params(d, a).P, P_test[a], rec_params(d, a).dist_func)
            ELSE prev[a]]
        correct == [a \in AlgSet |->
            /\ rec_params(d, a).enabled
            /\ is_same_class(d.entries[rec_index[a] + 1].name, file.name)]
    IN  [name |-> file.name, T_i |-> T_i, P_test |-> P_test, rec_index |-> rec_index,
         correct |-> correct,
         num_correct |-> [a \in AlgSet |->
            IF rec_params(d, a).enabled THEN tally(tallies[a], correct[a]) ELSE tallies[a]]]

RECURSIVE recognize_loop(_, _, _)
\* the records of the first n iterations; rec_index and num_correct are 0 in
\* the initialiser of algorithms[]
recognize_loop(d, testdir, n) ==
    IF n = 0 THEN <<>>
    ELSE LET before == recognize_loop(d, testdir, n - 1)
             T_prev == IF n = 1 THEN m_initialize(d.num_dimensions, 1, Zero)
                       ELSE before[n - 1].T_i
             prev == IF n = 1 THEN [a \in AlgSet |-> 0] ELSE before[n - 1].rec_index
             tallies == IF n = 1 THEN [a \in AlgSet |-> 0] ELSE before[n - 1].num_correct
         IN  Append(before, recognize_one(d, testdir[n], T_prev, prev, tallies))

\* db_recognize: what it computes for each test image and what it reports
db_recognize(d, testdir) ==
    LET queries == recognize_loop(d, testdir, Len(testdir))
        num_correct == IF queries = <<>> THEN [a \in AlgSet |-> 0]
                       ELSE queries[Len(queries)].num_correct
    IN  [called |-> TRUE,
         testdir |-> testdir,
         num_test_images |-> Len(testdir),
         queries |-> queries,
         num_correct |-> num_correct,
         accuracy |-> [a \in AlgSet |-> Rat(100 * num_correct[a], Len(testdir))]]

NoRecognition ==
    [called |-> FALSE, testdir |-> <<>>, num_test_images |-> 0, queries |-> <<>>,
     num_correct |-> [a \in AlgSet |-> 0], accuracy |-> [a \in AlgSet |-> Zero]]

-----------------------------------------------------------------------------
(* Inputs *)

TrainPaths == {<<"t", "/">>, <<"t", " ", "/">>}

\* images per class of the training directories
TrainShapes == {<<2>>, <<1, 1>>}

RECURSIVE SeqSum(_)
SeqSum(s) == IF s = <<>> THEN 0 ELSE s[1] + SeqSum(Tail(s))

DirsOf(paths, shapes) ==
    UNION {{DirFiles(path, shape, pix) : pix \in [1 .. SeqSum(shape) -> 0 .. MaxPix]} :
        <<path, shape>> \in paths \X shapes}

TrainDirs == DirsOf(TrainPaths, TrainShapes)

\* the test images are of class 1, so that a training entry of class 2
\* is a wrong match
QueryFiles ==
    {[name |-> FileName(<<"q", "/">>, 1, 1), cls |-> 1, image |-> Image(pix)] :
        pix \in 0 .. MaxPix}

TestDirs == UNION {[1 .. n -> QueryFiles] : n \in 1 .. MaxQueries}

\* what a malloc'ed image_entry_t may hold before fscanf fills it
JunkEntries ==
    {[ent_class |-> 0, name |-> <<>>], [ent_class |-> 1, name |-> <<"1", "_", "1">>]}

NoFiles == [exists |-> FALSE, tset |-> <<>>, tdata |-> <<>>]

NoHistory ==
    [dir |-> <<>>, saved |-> db_construct(FALSE, FALSE, FALSE),
     written |-> <<>>, read |-> <<>>,
     uninit_free |-> FALSE, null_deref |-> FALSE, mem |-> NoMemory]

Idle == [pc |-> "idle"]

-----------------------------------------------------------------------------
(* The database life cycle: construct, then train or load, then save and   *)
(* recognize; a new process constructs the database again with the same    *)
(* flags and finds the files the earlier one saved.                        *)

Init ==
    /\ db \in {db_construct(pca, lda, ica) : <<pca, lda, ica>> \in BOOLEAN \X BOOLEAN \X BOOLEAN}
    /\ fs = NoFiles
    /\ hist = NoHistory
    /\ rq = NoRecognition
    /\ nn = Idle
    /\ gk = Idle

\* a behaviour trains once: the later processes load what was saved
Train ==
    /\ db.pc = "Empty"
    /\ hist.dir = <<>>
    /\ \E dir \in TrainDirs, sgn \in {1}, ub \in BOOLEAN :
       \E W_lda_tr \in IF db.lda THEN ExtBasis(ImgSide * ImgSide) ELSE {NULL},
          W_ica_tr \in IF db.ica THEN ExtBasis(ImgSide * ImgSide) ELSE {NULL} :
            /\ db' = db_train(db, dir, sgn, W_lda_tr, W_ica_tr, ub)
            /\ hist' = [hist EXCEPT !.dir = dir, !.uninit_free = ~AnyAlgorithm(db),
                                    !.mem = db_train_memory(db)]
    /\ UNCHANGED <<fs, rq, nn, gk>>

\* db_recognize is the last call a process makes on its database
Save ==
    /\ db.pc \in {"Trained", "Loaded"}
    /\ ~rq.called
    /\ fs' = db_save(db)
    /\ hist' = [hist EXCEPT !.saved = db, !.written = db_save_fields(db)]
    /\ UNCHANGED <<db, rq, nn, gk>>

Load ==
    /\ db.pc = "Empty"
    /\ \E junk \in JunkEntries, mem \in JunkMemory : db' = db_load(db, fs, junk, mem)
    /\ hist' = [hist EXCEPT !.read = IF fs.exists THEN db_load_fields(db) ELSE <<>>,
                            !.null_deref = fs.exists /\ ~AnyAlgorithm(db)]
    /\ UNCHANGED <<fs, rq, nn, gk>>

Recognize ==
    /\ db.pc \in {"Trained", "Loaded"}
    /\ ~rq.called
    /\ \E testdir \in TestDirs : rq' = db_recognize(db, testdir)
    /\ UNCHANGED <<db, fs, hist, nn, gk>>

\* the process ends and a new one constructs the database with the same flags
Restart ==
    /\ db.pc \in {"Trained", "Loaded", "Crashed", "Destructed"}
    /\ db' = db_construct(db.pca, db.lda, db.ica)
    /\ rq' = NoRecognition
    /\ hist' = [hist EXCEPT !.read = <<>>, !.uninit_free = FALSE, !.null_deref = FALSE,
                            !.mem = NoMemory]
    /\ UNCHANGED <<fs, nn, gk>>

Next == Train \/ Save \/ Load \/ Recognize \/ Restart

Spec == Init /\ [][Next]_vars

\* A process may end by destructing its database, whether or not it trained
\* or loaded it
Destruct ==
    /\ db.pc \in {"Empty", "Trained", "Loaded"}
    /\ db' = db_destruct(db)
    /\ hist' = [hist EXCEPT !.mem.m_free = @ \o db_destruct_m_free(db)]
    /\ UNCHANGED <<fs, rq, nn, gk>>

NextLife == Train \/ Save \/ Load \/ Destruct \/ Restart

SpecLife == Init /\ [][NextLife]_vars

\* A file of the saved database is cut short (a save interrupted, a disk
\* full, a copy that failed) before a later process loads it
Damage ==
    /\ db.pc = "Empty"
    /\ fs.exists
    /\ hist.saved.pc = "Trained"
    /\ fs = db_save(hist.saved)
    /\ \/ \E k \in 0 .. Len(fs.tdata) - 1 : fs' = [fs EXCEPT !.tdata = SubSeq(fs.tdata, 1, k)]
       \/ \E k \in 0 .. Len(fs.tset) - 1 : fs' = [fs EXCEPT !.tset = SubSeq(fs.tset, 1, k)]
    /\ UNCHANGED <<db, hist, rq, nn, gk>>

NextIO == Train \/ Save \/ Damage \/ Load \/ Restart

SpecIO == Init /\ [][NextIO]_vars

-----------------------------------------------------------------------------
(* The scenario of the description: a PCA-only database is trained on a    *)
(* labelled set of three classes with two images each, and the same images *)
(* are then recognized.                                                    *)

\* images per class of the labelled set
ScenarioShape == <<2, 2, 2>>

ScenarioDirs == DirsOf({<<"t", "/">>}, {ScenarioShape})

InitPCA ==
    /\ db = db_construct(TRUE, FALSE, FALSE)
    /\ fs = NoFiles
    /\ hist = NoHistory
    /\ rq = NoRecognition
    /\ nn = Idle
    /\ gk = Idle

\* sgn is the sign the eigensolver gives the principal component
TrainLabelled ==
    /\ db.pc = "Empty"
    /\ \E dir \in ScenarioDirs, sgn \in {-1, 1} :
        /\ db' = db_train(db, dir, sgn, NULL, NULL, FALSE)
        /\ hist' = [hist EXCEPT !.dir = dir]
    /\ UNCHANGED <<fs, rq, nn, gk>>

RecognizeSame ==
    /\ db.pc = "Trained"
    /\ ~rq.called
    /\ rq' = db_recognize(db, hist.dir)
    /\ UNCHANGED <<db, fs, hist, nn, gk>>

NextPCA == TrainLabelled \/ RecognizeSame

SpecPCA == InitPCA /\ [][NextPCA]_vars

-----------------------------------------------------------------------------
(* nearest_neighbor as a function of its arguments *)

\* the projections have NNRows rows and at most MaxCols columns
NNRows == 2

MaxCols == 2

NNVals == {RInt(-1), Zero, One}

NNMatrices(r, c) == {[rows |-> r, cols |-> c, data |-> data] : data \in [1 .. r * c -> NNVals]}

InitNN ==
    /\ \E c \in 1 .. MaxCols :
       \E P \in NNMatrices(NNRows, c), P_test \in NNMatrices(NNRows, 1),
          f \in {"m_dist_L2", "m_dist_COS"} :
            nn = [pc |-> "call", P |-> P, P_test |-> P_test, dist_func |-> f, min_index |-> -1]
    /\ db = db_construct(FALSE, FALSE, FALSE)
    /\ fs = NoFiles
    /\ hist = NoHistory
    /\ rq = NoRecognition
    /\ gk = Idle

CallNearestNeighbor ==
    /\ nn.pc = "call"
    /\ nn' = [nn EXCEPT !.pc = "done",
                        !.min_index = nearest_neighbor(nn.P, nn.P_test, nn.dist_func)]
    /\ UNCHANGED <<db, fs, hist, rq, gk>>

NextNN == CallNearestNeighbor

SpecNN == InitNN /\ [][NextNN]_vars

-----------------------------------------------------------------------------
(* The kernel built for the GPU: a matrix has a host buffer (data) and a   *)
(* device mirror (data_dev); cublas_set_matrix pushes, cublas_get_matrix   *)
(* pulls.  The operations of the CPU build are given next to them.         *)

NULL_dev == [rows |-> -1, cols |-> -1, data |-> <<>>, data_dev |-> <<>>]

\* the host buffer and the device mirror of M as plain matrices
Host(M) == [rows |-> M.rows, cols |-> M.cols, data |-> M.data]

Device(M) == [rows |-> M.rows, cols |-> M.cols, data |-> M.data_dev]

\* cudaMalloc: djunk is what the device memory happens to hold
cublas_alloc_matrix(M, djunk) ==
    [rows |-> M.rows, cols |-> M.cols, data |-> M.data,
     data_dev |-> [k \in 1 .. M.rows * M.cols |-> djunk]]

cublas_set_matrix(M) == [M EXCEPT !.data_dev = M.data]

cublas_get_matrix(M) == [M EXCEPT !.data = M.data_dev]

m_initialize_gpu(r, c, junk, djunk) == cublas_alloc_matrix(m_initialize(r, c, junk), djunk)

m_zeros_gpu(r, c) == cublas_set_matrix(cublas_alloc_matrix(m_zeros(r, c), Zero))

\* the n x n matrix of ones
m_identity_ones(n) == [rows |-> n, cols |-> n, data |-> [k \in 1 .. n * n |-> One]]

m_identity(n) ==
    [rows |-> n, cols |-> n,
     data |-> [k \in 1 .. n * n |-> IF (k - 1) % n = (k - 1) \div n THEN One ELSE Zero]]

m_identity_gpu(n) == cublas_set_matrix(cublas_alloc_matrix(m_identity(n), Zero))

\* the helper of the tests: the data are written to the host buffer and pushed
m_initialize_data(r, c, data, djunk) ==
    cublas_set_matrix([m_initialize_gpu(r, c, Zero, djunk) EXCEPT !.data = data])

\* memcpy into the host buffer of a new matrix; nothing is pushed
m_copy_columns_gpu(M, begin, end, djunk) ==
    [m_initialize_gpu(M.rows, end - begin, Zero, djunk) EXCEPT
        !.data = SubSeq(M.data, begin * M.rows + 1, end * M.rows)]

m_copy_gpu(M, djunk) == m_copy_columns_gpu(M, 0, M.cols, djunk)

\* the loop fills the host buffer of a new matrix; nothing is pushed
m_transpose_gpu(M, djunk) ==
    [m_initialize_gpu(M.cols, M.rows, Zero, djunk) EXCEPT !.data = m_transpose(Host(M)).data]

\* host loops over the host buffers
m_mean_row(M) ==
    [rows |-> 1, cols |-> M.cols,
     data |-> [j \in 1 .. M.cols |->
        RDiv(Sum([i \in 1 .. M.rows |-> elem(M, i - 1, j - 1)]), RInt(M.rows))]]

m_subtract_rows(M, a) ==
    [M EXCEPT !.data = [k \in 1 .. M.rows * M.cols |->
        RSub(M.data[k], elem(a, 0, (k - 1) \div M.rows))]]

m_elem_mult(M, c) ==
    [M EXCEPT !.data = [k \in 1 .. M.rows * M.cols |-> RMul(M.data[k], c)]]

\* 1 / M->rows: the divisor without the - 1
covariance_scale_biased(M) == RDiv(One, RInt(M.rows))

\* 1 / c with c = M->rows - 1, or 1 for a single row
covariance_scale(M) == RDiv(One, RInt(IF M.rows > 1 THEN M.rows - 1 ELSE 1))

\* what an operation of either build hands back: a matrix, the eigenvalues,
\* a norm; and whether it read a device mirror that differed from the host
\* buffer, or a host buffer that differed from the mirror a gemm had written
NoResult ==
    [C |-> NULL_dev, eval |-> NULL_dev, norm |-> NaN,
     stale_dev_read |-> FALSE, stale_host_read |-> FALSE]

\* a matrix of the CPU build, as a result: its one buffer is current
OfHost(M) == [rows |-> M.rows, cols |-> M.cols, data |-> M.data, data_dev |-> M.data]

m_product_gpu(A, B) ==
    LET C == m_zeros_gpu(A.rows, B.cols)
    IN  [NoResult EXCEPT
            !.C = [C EXCEPT !.data_dev = m_product(Device(A), Device(B)).data],
            !.stale_dev_read = A.data_dev # A.data \/ B.data_dev # B.data]

m_product_cpu(A, B) == [NoResult EXCEPT !.C = OfHost(m_product(Host(A), Host(B)))]

m_covariance_gpu(M, djunk) ==
    LET A0 == m_copy_gpu(M, djunk)
        mu == m_mean_row(Host(A0))
        A == [A0 EXCEPT !.data = m_subtract_rows(Host(A0), mu).data]
        C0 == m_zeros_gpu(A.cols, A.cols)
        C1 == [C0 EXCEPT !.data_dev = m_product(m_transpose(Device(A)), Device(A)).data]
    IN  [NoResult EXCEPT
            !.C = [C1 EXCEPT !.data = m_elem_mult(Host(C1), covariance_scale(M)).data],
            !.stale_dev_read = A.data_dev # A.data,
            !.stale_host_read = C1.data # C1.data_dev]

m_covariance_cpu(M) ==
    LET A == m_subtract_rows(Host(M), m_mean_row(Host(M)))
    IN  [NoResult EXCEPT
            !.C = OfHost(m_elem_mult(m_product(m_transpose(A), A), covariance_scale(M)))]

\* nrm2 is the square root of the sum of squares: the norm is kept as its
\* square, which decides equality of two norms
nrm2(data) == Sum([k \in 1 .. Len(data) |-> RMul(data[k], data[k])])

m_norm_gpu(v) ==
    [NoResult EXCEPT !.norm = nrm2(v.data_dev), !.stale_dev_read = v.data_dev # v.data]

m_norm_cpu(v) == [NoResult EXCEPT !.norm = nrm2(v.data)]

\* M is diagonal with an ascending diagonal: dsyev then answers the diagonal
\* and the identity
IsAscendingDiagonal(M) ==
    /\ M.rows = M.cols
    /\ \A i, j \in 0 .. M.rows - 1 : i # j => elem(M, i, j) = Zero
    /\ \A i \in 1 .. M.rows - 1 : ~RLt(elem(M, i, i), elem(M, i - 1, i - 1))

Diagonal(M) == [rows |-> M.rows, cols |-> 1, data |-> [i \in 1 .. M.rows |-> elem(M, i - 1, i - 1)]]

\* the stub: the eigenvalues stay as malloc left them, the eigenvectors are
\* the copy of M
m_eigen_gpu(M, junk, djunk) ==
    [NoResult EXCEPT !.eval = m_initialize_gpu(M.rows, 1, junk, djunk),
                     !.C = m_copy_gpu(M, djunk)]

m_eigen_cpu(M) ==
    [NoResult EXCEPT !.eval = OfHost(Diagonal(M)), !.C = OfHost(m_identity(M.rows))]

m_eigen2_gpu(A, B, junk, djunk) ==
    [NoResult EXCEPT !.eval = m_initialize_gpu(A.rows, 1, junk, djunk),
                     !.C = m_copy_gpu(A, djunk)]

\* for B the identity dsygv answers what dsyev does
m_eigen2_cpu(A, B) ==
    [NoResult EXCEPT !.eval = OfHost(Diagonal(A)), !.C = OfHost(m_identity(A.rows))]

m_inverse_gpu(M, djunk) == [NoResult EXCEPT !.C = m_copy_gpu(M, djunk)]

\* getrf and getri on a diagonal matrix with no zero on the diagonal
m_inverse_cpu(M) ==
    [NoResult EXCEPT !.C = OfHost([Host(M) EXCEPT !.data = [k \in 1 .. M.rows * M.cols |->
        IF (k - 1) % M.rows = (k - 1) \div M.rows THEN RDiv(One, M.data[k]) ELSE Zero]])]

m_sqrtm_gpu(M) == NoResult

IsSquareNumber(x) == x[2] = 1 /\ \E k \in 0 .. x[1] : k * k = x[1]

SquareRoot(x) == RInt(CHOOSE k \in 0 .. x[1] : k * k = x[1])

\* eigenvectors times the roots of the eigenvalues times the eigenvectors'
\* transpose, for a diagonal matrix of square numbers
m_sqrtm_cpu(M) ==
    [NoResult EXCEPT !.C = OfHost([Host(M) EXCEPT !.data = [k \in 1 .. M.rows * M.cols |->
        IF (k - 1) % M.rows = (k - 1) \div M.rows THEN SquareRoot(M.data[k]) ELSE Zero]])]

-----------------------------------------------------------------------------
(* A client of the GPU build, as the tests of the kernel are written: it   *)
(* makes an operand with m_initialize_data, may derive another from it by  *)
(* a host-side operation, calls one operation, pulls the product as        *)
(* test_m_product does, and prints the result.  The CPU build's answer to  *)
(* the same call is kept next to the GPU build's.                          *)

\* what malloc'ed and cudaMalloc'ed memory may hold
GKJunk == {Zero, RInt(MaxPix)}

\* ImgSide x ImgSide, a on the diagonal and b elsewhere
SquareData(a, b) ==
    [k \in 1 .. ImgSide * ImgSide |->
        IF (k - 1) % ImgSide = (k - 1) \div ImgSide THEN RInt(a) ELSE RInt(b)]

\* ImgSide x 1, a first and b below it
VectorData(a, b) == [k \in 1 .. ImgSide |-> IF k = 1 THEN RInt(a) ELSE RInt(b)]

NoCall ==
    [pc |-> "start", M |-> NULL_dev, derived |-> FALSE, op |-> "none",
     gpu |-> NoResult, cpu |-> NoResult, printed |-> <<>>,
     stale_dev_read |-> FALSE, stale_host_read |-> FALSE]

InitGPU ==
    /\ gk = NoCall
    /\ db = db_construct(FALSE, FALSE, FALSE)
    /\ fs = NoFiles
    /\ hist = NoHistory
    /\ rq = NoRecognition
    /\ nn = Idle

InitializeData ==
    /\ gk.pc = "start"
    /\ \E a \in 0 .. MaxPix, b \in 0 .. MaxPix, djunk \in GKJunk :
        \/ gk' = [gk EXCEPT !.pc = "ready",
                            !.M = m_initialize_data(ImgSide, ImgSide, SquareData(a, b), djunk)]
        \/ gk' = [gk EXCEPT !.pc = "ready",
                            !.M = m_initialize_data(ImgSide, 1, VectorData(a, b), djunk)]
    /\ UNCHANGED <<nn, db, fs, hist, rq>>

\* the operand is replaced by its copy
Copy ==
    /\ gk.pc = "ready"
    /\ ~gk.derived
    /\ \E djunk \in GKJunk :
        gk' = [gk EXCEPT !.M = m_copy_gpu(gk.M, djunk), !.derived = TRUE]
    /\ UNCHANGED <<nn, db, fs, hist, rq>>

\* the operand is replaced by its transpose
Transpose ==
    /\ gk.pc = "ready"
    /\ ~gk.derived
    /\ \E djunk \in GKJunk :
        gk' = [gk EXCEPT !.M = m_transpose_gpu(gk.M, djunk), !.derived = TRUE]
    /\ UNCHANGED <<nn, db, fs, hist, rq>>

\* the operand is doubled in place, on the host
ElemMult ==
    /\ gk.pc = "ready"
    /\ ~gk.derived
    /\ gk' = [gk EXCEPT !.M.data = m_elem_mult(Host(gk.M), RInt(2)).data, !.derived = TRUE]
    /\ UNCHANGED <<nn, db, fs, hist, rq>>

\* the client pushes the operand it derived
SetMatrix ==
    /\ gk.pc = "ready"
    /\ gk.derived
    /\ gk.M.data_dev # gk.M.data
    /\ gk' = [gk EXCEPT !.M = cublas_set_matrix(gk.M)]
    /\ UNCHANGED <<nn, db, fs, hist, rq>>

\* the state after a call that answered gpu on this build and cpu on the other
Called(op, gpu, cpu) ==
    [gk EXCEPT !.pc = "called", !.op = op, !.gpu = gpu, !.cpu = cpu,
               !.stale_dev_read = gpu.stale_dev_read,
               !.stale_host_read = gpu.stale_host_read]

Product ==
    /\ gk.pc = "ready"
    /\ gk.M.rows = gk.M.cols
    /\ gk' = Called("m_product", m_product_gpu(gk.M, gk.M), m_product_cpu(gk.M, gk.M))
    /\ UNCHANGED <<nn, db, fs, hist, rq>>

Covariance ==
    /\ gk.pc = "ready"
    /\ \E djunk \in GKJunk :
        gk' = Called("m_covariance", m_covariance_gpu(gk.M, djunk), m_covariance_cpu(gk.M))
    /\ UNCHANGED <<nn, db, fs, hist, rq>>

Norm ==
    /\ gk.pc = "ready"
    /\ gk.M.rows = 1 \/ gk.M.cols = 1
    /\ gk' = Called("m_norm", m_norm_gpu(gk.M), m_norm_cpu(gk.M))
    /\ UNCHANGED <<nn, db, fs, hist, rq>>

Eigen ==
    /\ gk.pc = "ready"
    /\ IsAscendingDiagonal(Host(gk.M))
    /\ \E junk \in GKJunk, djunk \in GKJunk :
        gk' = Called("m_eigen", m_eigen_gpu(gk.M, junk, djunk), m_eigen_cpu(gk.M))
    /\ UNCHANGED <<nn, db, fs, hist, rq>>

Eigen2 ==
    /\ gk.pc = "ready"
    /\ IsAscendingDiagonal(Host(gk.M))
    /\ \E junk \in GKJunk, djunk \in GKJunk :
        gk' = Called("m_eigen2",
                     m_eigen2_gpu(gk.M, m_identity_gpu(gk.M.rows), junk, djunk),
                     m_eigen2_cpu(gk.M, m_identity_gpu(gk.M.rows)))
    /\ UNCHANGED <<nn, db, fs, hist, rq>>

Inverse ==
    /\ gk.pc = "ready"
    /\ IsAscendingDiagonal(Host(gk.M))
    /\ \A i \in 0 .. gk.M.rows - 1 : elem(gk.M, i, i) # Zero
    /\ \E djunk \in GKJunk :
        gk' = Called("m_inverse", m_inverse_gpu(gk.M, djunk), m_inverse_cpu(gk.M))
    /\ UNCHANGED <<nn, db, fs, hist, rq>>

Sqrtm ==
    /\ gk.pc = "ready"
    /\ IsAscendingDiagonal(Host(gk.M))
    /\ \A i \in 0 .. gk.M.rows - 1 : IsSquareNumber(elem(gk.M, i, i))
    /\ gk' = Called("m_sqrtm", m_sqrtm_gpu(gk.M), m_sqrtm_cpu(gk.M))
    /\ UNCHANGED <<nn, db, fs, hist, rq>>

\* test_m_product pulls the product before it prints it
GetMatrix ==
    /\ gk.pc = "called"
    /\ gk.op = "m_product"
    /\ gk' = [gk EXCEPT !.pc = "pulled", !.gpu.C = cublas_get_matrix(gk.gpu.C)]
    /\ UNCHANGED <<nn, db, fs, hist, rq>>

\* m_fprint of the matrix the call handed back reads its host buffer; of a
\* null pointer it ends the process
Fprint ==
    /\ \/ gk.pc = "pulled"
       \/ gk.pc = "called" /\ gk.op \notin {"m_product", "m_norm"}
    /\ gk' = IF gk.gpu.C = NULL_dev
             THEN [gk EXCEPT !.pc = "crashed"]
             ELSE [gk EXCEPT !.pc = "printed",
                             !.printed = gk.gpu.C.data,
                             !.stale_host_read =
                                \/ gk.stale_host_read
                                \/ /\ gk.op \in {"m_product", "m_covariance"}
                                   /\ gk.gpu.C.data # gk.gpu.C.data_dev]
    /\ UNCHANGED <<nn, db, fs, hist, rq>>

NextGPU ==
    \/ InitializeData
    \/ Copy
    \/ Transpose
    \/ ElemMult
    \/ SetMatrix
    \/ Product
    \/ Covariance
    \/ Norm
    \/ Eigen
    \/ Eigen2
    \/ Inverse
    \/ Sqrtm
    \/ GetMatrix
    \/ Fprint

SpecGPU == InitGPU /\ [][NextGPU]_vars

-----------------------------------------------------------------------------
(* The kernel of the CPU build as its callers see it: matrices are         *)
(* pointers to malloc'ed blocks.  The heap is the sequence of the blocks   *)
(* allocated so far, a matrix_t is [rows, cols, buf] with buf the index of *)
(* its data block.                                                         *)

NoHandle == [rows |-> -1, cols |-> -1, buf |-> 0]

\* the matrix a handle points to
Deref(heap, h) == [rows |-> h.rows, cols |-> h.cols, data |-> heap[h.buf]]

\* the block of the last matrix allocated, handed out again
malloc_last(heap) == IF heap = <<>> THEN 1 ELSE Len(heap)

\* malloc answers a block that is none of the blocks in use
malloc(heap) == Len(heap) + 1

\* *(block buf) = data
Store(heap, buf, data) ==
    IF buf > Len(heap) THEN Append(heap, data) ELSE [heap EXCEPT ![buf] = data]

\* C = m_initialize(rows, cols), filled with the data of V and returned
Returned(heap, V) ==
    LET buf == malloc(heap)
    IN  [heap |-> Store(heap, buf, V.data),
         M |-> [rows |-> V.rows, cols |-> V.cols, buf |-> buf]]

\* the columns taken from position begin on, whatever end is
m_copy_columns_from(M, begin, end) ==
    [rows |-> M.rows, cols |-> M.cols - begin,
     data |-> SubSeq(M.data, begin * M.rows + 1, M.cols * M.rows)]

\* memcpy of rows * (end - begin) values from &elem(M, 0, begin)
m_copy_columns(M, begin, end) ==
    [rows |-> M.rows, cols |-> end - begin,
     data |-> SubSeq(M.data, begin * M.rows + 1, end * M.rows)]

m_copy(M) == m_copy_columns(M, 0, M.cols)

\* IdentityLayer::project
project(X) == m_copy(X)

\* IdentityLayer::compute: no model
IdentityLayer_compute(X, y, c) == NULL

\* a save that writes a tag of its own to the stream
IdentityLayer_save_tagged(stream) == Append(stream, [ty |-> "int", v |-> 0])

\* IdentityLayer::save: the stream after it
IdentityLayer_save(stream) == stream

\* IdentityLayer::load at position pos of the stream: the position after it
IdentityLayer_load(stream, pos) == pos

\* m_assign_column(A, i, B, j), on the host: memcpy of B->rows elements from
\* the start of B's data to column i of A
m_assign_column(A, i, B, j) ==
    [A EXCEPT !.data = [k \in 1 .. A.rows * A.cols |->
        IF (k - 1) \div A.rows = i THEN B.data[((k - 1) % A.rows) + 1] ELSE A.data[k]]]

\* elem(M, i, j) as the C macro reads it, with no check of i and j: the
\* element at offset j * rows + i of the data block, or, outside the block,
\* whatever the memory holds there
elem_unchecked(M, i, j, junk) ==
    LET k == j * M.rows + i + 1
    IN  IF k \in 1 .. M.rows * M.cols
        THEN [v |-> M.data[k], inside |-> TRUE]
        ELSE [v |-> junk, inside |-> FALSE]

\* m_reorder_columns(M, V): row = elem(V, 1, j) converted to int, and every
\* element of column j of R is elem(M, row, j).  junk is what the reads
\* outside the data blocks find.  oob names the matrices read outside their
\* blocks.
m_reorder_columns(M, V, junk) ==
    LET row == [j \in 0 .. M.cols - 1 |->
                    LET e == elem_unchecked(V, 1, j, junk)
                    IN  [v |-> e.v[1] \div e.v[2], inside |-> e.inside]]
        val == [j \in 0 .. M.cols - 1 |-> elem_unchecked(M, row[j].v, j, junk)]
    IN  [R |-> [rows |-> M.rows, cols |-> M.cols,
                data |-> [k \in 1 .. M.rows * M.cols |-> val[(k - 1) \div M.rows].v]],
         oob |-> (IF \E j \in 0 .. M.cols - 1 : ~row[j].inside THEN {"V"} ELSE {})
                    \cup (IF \E j \in 0 .. M.cols - 1 : ~val[j].inside THEN {"M"} ELSE {})]

\* the two blocks of a matrix: the matrix_t and its data, as m_initialize
\* (and m_zeros, m_copy, m_mean_column, which call it) allocates them
matrix_blocks(name) == {[of |-> name, block |-> "struct"], [of |-> name, block |-> "data"]}

\* free(M): the matrix_t only
free(name) == {[of |-> name, block |-> "struct"]}

\* m_free(M): free(M->data); free(M)
m_free(name) == {[of |-> name, block |-> "data"], [of |-> name, block |-> "struct"]}

\* the blocks m_covariance of the kernel the database is built with
\* allocates, releases and returns
m_covariance_columns_memory ==
    [allocated |-> matrix_blocks("A") \cup matrix_blocks("mean") \cup matrix_blocks("C"),
     released |-> free("A") \cup free("mean"),
     returned |-> matrix_blocks("C")]

\* the same for m_covariance of the kernel with GPU branches, on the host
m_covariance_memory ==
    [allocated |-> matrix_blocks("A") \cup matrix_blocks("mu") \cup matrix_blocks("C"),
     released |-> m_free("A") \cup m_free("mu"),
     returned |-> matrix_blocks("C")]

\* no call made
NoBlocks == [allocated |-> {}, released |-> {}, returned |-> {}]

\* 1 / c with c = M->cols - 1, or 1 for a single column
covariance_scale_columns(M) == RDiv(One, RInt(IF M.cols > 1 THEN M.cols - 1 ELSE 1))

\* m_covariance of the kernel the database is built with: the columns of M
\* are the observations
m_covariance_columns(M) ==
    LET A == m_subtract_columns(m_copy(M), m_mean_column(m_copy(M)))
    IN  m_elem_mult(m_product(A, m_transpose(A)), covariance_scale_columns(M))

\* the data block kept as it is, column by column
m_reshape_column_major(M, newNumRows, newNumCols) ==
    [rows |-> newNumRows, cols |-> newNumCols, data |-> M.data]

\* element i of R in row-major order is element i of M in row-major order
m_reshape(M, newNumRows, newNumCols) ==
    [rows |-> newNumRows, cols |-> newNumCols,
     data |-> [k \in 1 .. newNumRows * newNumCols |->
        LET i == ((k - 1) % newNumRows) * newNumCols + ((k - 1) \div newNumRows)
        IN  elem(M, i \div M.cols, i % M.cols)]]

\* sqrt(x) of a rational x >= 0 as a distance value: x / sqrt(x)
Sqrt(x) == IF x = Zero THEN DConst(Zero) ELSE [q |-> x, r |-> x]

\* the sum of the absolute differences
m_dist_L1_manhattan(A, i, B, j) ==
    DConst(Sum([k \in 1 .. A.rows |->
        LET diff == RSub(elem(A, k - 1, i), elem(B, k - 1, j))
        IN  IF RSign(diff) < 0 THEN RNeg(diff) ELSE diff]))

m_dist_L1(A, i, B, j) == Sqrt(m_dist_L2(A, i, B, j).q)

\* the assert at the head of an operation of the kernel (matrix.c with the
\* GPU and CPU branches): TRUE where the operation has none.  i and j are the
\* index arguments: columns, or begin and end
asserts(op, A, B, i, j) ==
    CASE op = "m_product" -> A.cols = B.rows
      [] op \in {"m_add", "m_subtract"} -> A.rows = B.rows /\ A.cols = B.cols
      [] op = "m_subtract_columns" -> A.rows = B.rows /\ B.cols = 1
      [] op \in {"m_dist_L2", "m_dist_COS", "m_dist_L1"} -> A.rows = B.rows
      [] op = "m_copy_columns" -> 0 <= i /\ i < j /\ j <= A.cols
      [] op = "m_assign_column" ->
            A.rows = B.rows /\ 0 <= i /\ i < A.cols /\ 0 <= j /\ j < B.cols
      [] op = "m_image_read" -> A.rows = B.rows
      [] op \in {"m_inverse", "m_sqrtm"} -> A.rows = A.cols
      [] op = "m_eigen2" -> A.rows = A.cols /\ B.rows = B.cols /\ A.rows = B.rows
      [] op = "m_eigen" -> TRUE
      [] OTHER -> TRUE

\* m_subtract_columns of the kernel the database is built with: no assert
asserts_subtract_columns_db(M, a) == TRUE

-----------------------------------------------------------------------------
(* A client of the CPU build, as the tests of the kernel are written: it   *)
(* makes its operands, calls one operation, and may then update one of the *)
(* matrices it holds in place.                                             *)

\* the elements of the operands are -1 .. MaxVal
MaxVal == 1

KVals == {RInt(v) : v \in -1 .. MaxVal}

KShapes == {<<1, 1>>, <<1, 2>>, <<2, 1>>, <<2, 2>>, <<2, 3>>, <<3, 2>>}

KMatrices(r, c) == {[rows |-> r, cols |-> c, data |-> data] : data \in [1 .. r * c -> KVals]}

KInputs == UNION {KMatrices(s[1], s[2]) : s \in KShapes}

\* vectors of at most two elements
KSmall == UNION {KMatrices(s[1], s[2]) : s \in {t \in KShapes : t[1] * t[2] <= 2}}

\* r, k, c of the products A (r x k) times B (k x c)
ProductShapes == {s \in (1 .. 2) \X (1 .. 2) \X (1 .. 2) : s[1] * s[2] * s[3] <= 4}

\* 1 x 1 and 2 x 2 diagonal matrices with no zero on the diagonal
KDiagonals ==
    {[rows |-> 1, cols |-> 1, data |-> <<a>>] : a \in KVals \ {Zero}}
        \cup {[rows |-> 2, cols |-> 2, data |-> <<a, Zero, Zero, b>>] :
                <<a, b>> \in (KVals \ {Zero}) \X (KVals \ {Zero})}

\* m_initialize_data on the CPU build: elem(M, i, j) = data[i][j]
FromRows(r, c, data) ==
    [rows |-> r, cols |-> c,
     data |-> [k \in 1 .. r * c |-> RInt(data[((k - 1) % r) * c + ((k - 1) \div r) + 1])]]

\* the operands of test_m_copy, test_m_product and test_m_distance
TestCopyA == FromRows(4, 4, <<16, 2, 3, 13, 5, 11, 10, 8, 9, 7, 6, 12, 4, 14, 15, 1>>)

TestProductA == FromRows(1, 4, <<1, 1, 0, 0>>)

TestProductB == FromRows(4, 1, <<1, 2, 3, 4>>)

TestDistanceM == FromRows(3, 2, <<1, 0, 0, 1, 0, 0>>)

\* the operations whose results the client updates in place afterwards
AliasOps ==
    {"m_copy", "m_copy_columns", "m_product", "m_transpose", "m_covariance",
     "m_covariance_db", "m_inverse", "project"}

\* the operations called with arguments of any shape, and those of them
\* that take column indices
CheckedOps ==
    {"m_product", "m_add", "m_subtract", "m_subtract_columns", "m_dist_L2", "m_dist_COS",
     "m_copy_columns", "m_assign_column", "m_image_read", "m_inverse", "m_eigen", "m_eigen2",
     "m_sqrtm"}

IndexedOps == {"m_dist_L2", "m_dist_COS", "m_copy_columns", "m_assign_column", "m_image_read"}

KStart ==
    [pc |-> "start", op |-> "none", heap |-> <<>>,
     A |-> NoHandle, B |-> NoHandle, R |-> NoHandle,
     A0 |-> NULL, B0 |-> NULL, R0 |-> NULL, i |-> 0, j |-> 0,
     dist |-> <<>>, stream |-> <<>>, back |-> <<>>, mutated |-> "none",
     model |-> NULL, oob |-> {}, memory |-> NoBlocks]

\* the client after op(A, B, i, j) returned R: the operands and the result
\* are blocks of the heap, A0, B0 and R0 what they held when op returned
\* (NULL for an operand or a result the operation does not have)
Call(op, A, B, i, j, R) ==
    LET a == Returned(<<>>, A)
        b == IF B = NULL THEN [heap |-> a.heap, M |-> NoHandle] ELSE Returned(a.heap, B)
        r == IF R = NULL THEN [heap |-> b.heap, M |-> NoHandle] ELSE Returned(b.heap, R)
    IN  [KStart EXCEPT !.pc = "called", !.op = op, !.heap = r.heap,
                       !.A = a.M, !.B = b.M, !.R = r.M,
                       !.A0 = A, !.B0 = B, !.R0 = R, !.i = i, !.j = j]

InitCPU ==
    /\ gk = KStart
    /\ db = db_construct(FALSE, FALSE, FALSE)
    /\ fs = NoFiles
    /\ hist = NoHistory
    /\ rq = NoRecognition
    /\ nn = Idle

KCovariance ==
    /\ gk.pc = "start"
    /\ \E M \in KInputs :
        gk' = [Call("m_covariance", M, NULL, 0, 0, Host(m_covariance_cpu(M).C)) EXCEPT
                !.memory = m_covariance_memory]
    /\ UNCHANGED <<nn, db, fs, hist, rq>>

KCovarianceDb ==
    /\ gk.pc = "start"
    /\ \E M \in KInputs :
        gk' = [Call("m_covariance_db", M, NULL, 0, 0, m_covariance_columns(M)) EXCEPT
                !.memory = m_covariance_columns_memory]
    /\ UNCHANGED <<nn, db, fs, hist, rq>>

KProduct ==
    /\ gk.pc = "start"
    /\ \/ \E s \in ProductShapes :
          \E A \in KMatrices(s[1], s[2]), B \in KMatrices(s[2], s[3]) :
            gk' = Call("m_product", A, B, 0, 0, m_product(A, B))
       \/ gk' = Call("m_product", TestProductA, TestProductB, 0, 0,
                     m_product(TestProductA, TestProductB))
       \/ gk' = Call("m_product", TestProductB, TestProductA, 0, 0,
                     m_product(TestProductB, TestProductA))
    /\ UNCHANGED <<nn, db, fs, hist, rq>>

KProductIdentity ==
    /\ gk.pc = "start"
    /\ \E M \in KInputs \cup {TestCopyA} :
        gk' = Call("m_product", M, m_identity(M.cols), 0, 0, m_product(M, m_identity(M.cols)))
    /\ UNCHANGED <<nn, db, fs, hist, rq>>

KCopy ==
    /\ gk.pc = "start"
    /\ \E M \in KInputs \cup {TestCopyA} : gk' = Call("m_copy", M, NULL, 0, 0, m_copy(M))
    /\ UNCHANGED <<nn, db, fs, hist, rq>>

KCopyColumns ==
    /\ gk.pc = "start"
    /\ \E M \in KInputs \cup {TestCopyA} :
       \E begin \in 0 .. M.cols - 1 :
       \E end \in begin + 1 .. M.cols :
            gk' = Call("m_copy_columns", M, NULL, begin, end, m_copy_columns(M, begin, end))
    /\ UNCHANGED <<nn, db, fs, hist, rq>>

KTranspose ==
    /\ gk.pc = "start"
    /\ \E M \in KInputs : gk' = Call("m_transpose", M, NULL, 0, 0, m_transpose(M))
    /\ UNCHANGED <<nn, db, fs, hist, rq>>

KInverse ==
    /\ gk.pc = "start"
    /\ \E M \in KDiagonals : gk' = Call("m_inverse", M, NULL, 0, 0, Host(m_inverse_cpu(M).C))
    /\ UNCHANGED <<nn, db, fs, hist, rq>>

KProject ==
    /\ gk.pc = "start"
    /\ \E X \in KInputs : gk' = Call("project", X, NULL, 0, 0, project(X))
    /\ UNCHANGED <<nn, db, fs, hist, rq>>

\* one or two matrices are written to a stream, the stream is read back
KWriteRead ==
    /\ gk.pc = "start"
    /\ \E mem \in JunkMemory :
        \/ \E M \in KInputs :
            LET stream == m_fwrite(M)
            IN  gk' = [Call("m_fwrite", M, NULL, 0, 0, NULL) EXCEPT
                        !.stream = stream, !.back = <<m_fread(stream, 1, mem)>>]
        \/ \E M1 \in KInputs, M2 \in KSmall :
            LET stream == m_fwrite(M1) \o m_fwrite(M2)
                first == m_fread(stream, 1, mem)
            IN  gk' = [Call("m_fwrite", M1, M2, 0, 0, NULL) EXCEPT
                        !.stream = stream,
                        !.back = <<first, m_fread(stream, first.pos, mem)>>]
    /\ UNCHANGED <<nn, db, fs, hist, rq>>

\* the three metrics on column i of A and column j of B, and on the same
\* columns with the arguments exchanged
KDistance ==
    /\ gk.pc = "start"
    /\ \E r \in 1 .. 2 :
       \E A \in KMatrices(r, 2) \cup {TestDistanceM} :
       \E B \in {A} \cup KMatrices(A.rows, 1) :
       \E i \in 0 .. A.cols - 1, j \in 0 .. B.cols - 1 :
            gk' = [Call("m_dist", A, B, i, j, NULL) EXCEPT
                    !.dist = [L2 |-> m_dist_L2(A, i, B, j), L2_back |-> m_dist_L2(B, j, A, i),
                              L1 |-> m_dist_L1(A, i, B, j),
                              COS |-> m_dist_COS(A, i, B, j)]]
    /\ UNCHANGED <<nn, db, fs, hist, rq>>

KReshape ==
    /\ gk.pc = "start"
    /\ \E M \in KInputs :
       \E newNumRows \in 1 .. M.rows * M.cols, newNumCols \in 1 .. M.rows * M.cols :
            /\ M.rows * M.cols = newNumRows * newNumCols
            /\ gk' = Call("m_reshape", M, NULL, newNumRows, newNumCols,
                          m_reshape(M, newNumRows, newNumCols))
    /\ UNCHANGED <<nn, db, fs, hist, rq>>

\* an operation called with operands of any two shapes and any indices: it
\* stops in its assert ("aborted") or goes on and returns ("returned")
KCallAny ==
    /\ gk.pc = "start"
    /\ \E op \in CheckedOps, sa \in KShapes, sb \in KShapes :
       \E i \in IF op \in IndexedOps THEN -1 .. 3 ELSE {0},
          j \in IF op \in IndexedOps THEN -1 .. 3 ELSE {0} :
            LET A == m_zeros(sa[1], sa[2])
                B == m_zeros(sb[1], sb[2])
            IN  gk' = [Call(op, A, B, i, j, NULL) EXCEPT
                        !.pc = IF asserts(op, A, B, i, j) THEN "returned" ELSE "aborted"]
    /\ UNCHANGED <<nn, db, fs, hist, rq>>

\* the same with m_subtract_columns of the kernel the database is built with
KCallAnyDb ==
    /\ gk.pc = "start"
    /\ \E sa \in KShapes, sb \in KShapes :
        LET M == m_zeros(sa[1], sa[2])
            a == m_zeros(sb[1], sb[2])
        IN  gk' = [Call("m_subtract_columns_db", M, a, 0, 0, NULL) EXCEPT
                    !.pc = IF asserts_subtract_columns_db(M, a) THEN "returned" ELSE "aborted"]
    /\ UNCHANGED <<nn, db, fs, hist, rq>>

\* an identity layer between two matrices of a stream: X is written, the
\* layer is computed from X and saved, M is written; then X is read, the
\* layer loaded, M read, and X projected
KIdentityLayer ==
    /\ gk.pc = "start"
    /\ \E X \in KInputs, M \in KMatrices(1, 1), c \in 1 .. 2, mem \in JunkMemory :
        LET stream == IdentityLayer_save(m_fwrite(X)) \o m_fwrite(M)
            first == m_fread(stream, 1, mem)
            second == m_fread(stream, IdentityLayer_load(stream, first.pos), mem)
        IN  gk' = [Call("IdentityLayer", X, M, 0, c, project(X)) EXCEPT
                    !.model = IdentityLayer_compute(X, <<>>, c),
                    !.stream = stream, !.back = <<first, second>>]
    /\ UNCHANGED <<nn, db, fs, hist, rq>>

\* the operands of test_m_assign_column
TestAssignA ==
    FromRows(4, 4, <<16, 2, 3, 13,  5, 11, 10, 8,  9, 7, 6, 12,  4, 14, 15, 1>>)

TestAssignB == FromRows(4, 1, <<0, 0, 0, 0>>)

\* A and B of the same number of rows, and the test's
AssignOperands ==
    (KMatrices(1, 2) \X KMatrices(1, 2)) \cup (KMatrices(2, 1) \X KMatrices(2, 2))
        \cup {<<TestAssignA, TestAssignB>>}

\* m_assign_column changes A in place
KAssignColumn ==
    /\ gk.pc = "start"
    /\ \E AB \in AssignOperands :
       \E i \in 0 .. AB[1].cols - 1, j \in 0 .. AB[2].cols - 1 :
        LET c == Call("m_assign_column", AB[1], AB[2], i, j, NULL)
        IN  gk' = [c EXCEPT !.heap = Store(c.heap, c.A.buf,
                                           m_assign_column(AB[1], i, AB[2], j).data)]
    /\ UNCHANGED <<nn, db, fs, hist, rq>>

\* the row vectors of c column indices
ColumnOrders(c) == {[rows |-> 1, cols |-> c, data |-> [k \in 1 .. c |-> RInt(f[k])]] :
                        f \in [1 .. c -> 0 .. c - 1]}

KReorderColumns ==
    /\ gk.pc = "start"
    /\ \E M \in KMatrices(2, 2) \cup KMatrices(1, 2) :
       \E V \in ColumnOrders(M.cols), junk \in {Zero, RInt(2)} :
        LET r == m_reorder_columns(M, V, junk)
        IN  gk' = [Call("m_reorder_columns", M, V, 0, 0, r.R) EXCEPT !.oob = r.oob]
    /\ UNCHANGED <<nn, db, fs, hist, rq>>

\* m_elem_mult(X, 2) on one of the matrices the client holds after a call
KMutate ==
    /\ gk.pc = "called"
    /\ gk.op \in AliasOps
    /\ \E t \in {"A", "B", "R"} :
        /\ gk[t] # NoHandle
        /\ gk' = [gk EXCEPT
                    !.pc = "mutated", !.mutated = t,
                    !.heap = Store(gk.heap, gk[t].buf,
                                   m_elem_mult(Deref(gk.heap, gk[t]), RInt(2)).data)]
    /\ UNCHANGED <<nn, db, fs, hist, rq>>

NextCPU ==
    \/ KCovariance
    \/ KCovarianceDb
    \/ KProduct
    \/ KProductIdentity
    \/ KCopy
    \/ KCopyColumns
    \/ KTranspose
    \/ KInverse
    \/ KProject
    \/ KWriteRead
    \/ KDistance
    \/ KReshape
    \/ KCallAny
    \/ KCallAnyDb
    \/ KIdentityLayer
    \/ KAssignColumn
    \/ KReorderColumns
    \/ KMutate

SpecCPU == InitCPU /\ [][NextCPU]_vars

(***************************************************************************)
(* The cuBLAS handle of the kernel with GPU branches                       *)
(***************************************************************************)

\* the calls of cublas_handle a process makes at most
MaxCalls == 3

\* the handles cublasCreate can answer
Handles == 1 .. 2

\* the operations that ask for the handle
HandleCallers ==
    {"cublas_set_matrix", "cublas_get_matrix", "m_covariance", "m_norm", "m_product"}

\* the statics of cublas_handle when the process starts
NoHandleYet == [init |-> 1, handle |-> 0]

\* a cublas_handle that creates a handle on every call
cublas_handle_every_call(s, stat, fresh) ==
    IF stat = "CUBLAS_STATUS_SUCCESS"
    THEN [init |-> 1, handle |-> fresh, created |-> TRUE, aborted |-> FALSE, ret |-> fresh]
    ELSE [init |-> 1, handle |-> s.handle, created |-> TRUE, aborted |-> TRUE, ret |-> 0]

\* cublas_handle with statics s, when cublasCreate would answer stat and the
\* handle fresh: the statics after it, whether cublasCreate ran, whether the
\* assertion ended the process, and the handle returned
cublas_handle(s, stat, fresh) ==
    IF s.init = 1
    THEN IF stat = "CUBLAS_STATUS_SUCCESS"
         THEN [init |-> 0, handle |-> fresh, created |-> TRUE, aborted |-> FALSE, ret |-> fresh]
         ELSE [init |-> 1, handle |-> s.handle, created |-> TRUE, aborted |-> TRUE, ret |-> 0]
    ELSE [init |-> s.init, handle |-> s.handle, created |-> FALSE, aborted |-> FALSE,
          ret |-> s.handle]

InitHandle ==
    /\ gk = [pc |-> "running", statics |-> NoHandleYet, creates |-> 0, calls |-> <<>>]
    /\ db = db_construct(FALSE, FALSE, FALSE)
    /\ fs = NoFiles
    /\ hist = NoHistory
    /\ rq = NoRecognition
    /\ nn = Idle

\* one of the operations asks for the handle
UseHandle ==
    /\ gk.pc = "running"
    /\ Len(gk.calls) < MaxCalls
    /\ \E caller \in HandleCallers, fresh \in Handles,
          stat \in {"CUBLAS_STATUS_SUCCESS", "CUBLAS_STATUS_NOT_INITIALIZED"} :
        LET r == cublas_handle(gk.statics, stat, fresh)
        IN  gk' = [pc |-> IF r.aborted THEN "aborted" ELSE "running",
                   statics |-> [init |-> r.init, handle |-> r.handle],
                   creates |-> gk.creates + (IF r.created THEN 1 ELSE 0),
                   calls |-> Append(gk.calls, [caller |-> caller, created |-> r.created,
                                               returned |-> ~r.aborted, handle |-> r.ret])]
    /\ UNCHANGED <<nn, db, fs, hist, rq>>

NextHandle == UseHandle

SpecHandle == InitHandle /\ [][NextHandle]_vars

-----------------------------------------------------------------------------
(* Properties *)

\* no distance from v to a column of P is NaN
NoNaN(P, v, f) == \A j \in 0 .. P.cols - 1 : ~DIsNaN(dist_func(f, v, 0, P, j))

\* column j of P is at least as near to v as every column, and no column
\* before j is
IsFirstMinimum(P, v, f, j) ==
    /\ j \in 0 .. P.cols - 1
    /\ \A k \in 0 .. P.cols - 1 : DLe(dist_func(f, v, 0, P, j), dist_func(f, v, 0, P, k))
    /\ \A k \in 0 .. j - 1 : ~DLe(dist_func(f, v, 0, P, k), dist_func(f, v, 0, P, j))

\* C1: nearest_neighbor returns the smallest column index whose distance to
\* P_test is minimal, for squared L2 and for negated cosine (stated for the
\* calls in which no distance is NaN).
C1_FirstMinimum ==
    (nn.pc = "done" /\ NoNaN(nn.P, nn.P_test, nn.dist_func))
        => IsFirstMinimum(nn.P, nn.P_test, nn.dist_func, nn.min_index)

\* the matrices of an enabled algorithm are present in d
AlgorithmPresent(d, a) ==
    rec_params(d, a).enabled => (rec_params(d, a).W_tr # NULL /\ rec_params(d, a).P # NULL)

\* C2: train and load, from an empty database with any flags, end in a
\* state where the mean face and every enabled algorithm's basis and
\* projection are present, and neither frees or dereferences a matrix that
\* was never created.
C2_TrainOrLoadUsable ==
    /\ ~hist.uninit_free
    /\ ~hist.null_deref
    /\ db.pc \in {"Trained", "Loaded"} =>
        (db.mean_face # NULL /\ \A a \in AlgSet : AlgorithmPresent(db, a))

\* the (class id, filename) pairs of d
EntryPairs(d) ==
    [i \in 1 .. Len(d.entries) |-> <<d.entries[i].ent_class, d.entries[i].name>>]

\* C3: a database loaded with the flags it was saved with equals the saved
\* one: mean face, every enabled algorithm's basis and projection, and the
\* entries, whatever the file names are.
C3_SaveLoadRoundTrip ==
    db.pc = "Loaded" =>
        /\ db.mean_face = hist.saved.mean_face
        /\ \A a \in AlgSet : rec_params(db, a).enabled =>
            /\ rec_params(db, a).W_tr = rec_params(hist.saved, a).W_tr
            /\ rec_params(db, a).P = rec_params(hist.saved, a).P
        /\ EntryPairs(db) = EntryPairs(hist.saved)

RECURSIVE BlobMatrices(_, _)
\* the matrices of a blob from position pos on, in order
BlobMatrices(tdata, pos) ==
    IF pos > Len(tdata) THEN <<>>
    ELSE LET r == m_fread(tdata, pos, [int |-> 0, double |-> Zero])
         IN  <<r.M>> \o BlobMatrices(tdata, r.pos)

\* mean face, then one pair for each algorithm of the sequence that is on
LayoutOf(on) ==
    <<"mean_face">>
        \o (IF on[1] THEN <<"W_pca_tr", "P_pca">> ELSE <<>>)
        \o (IF on[2] THEN <<"W_lda_tr", "P_lda">> ELSE <<>>)
        \o (IF on[3] THEN <<"W_ica_tr", "P_ica">> ELSE <<>>)

\* the blob holds exactly the matrices of d named by layout, and the last
\* load, if any, read exactly those
BlobHolds(d, layout) ==
    /\ hist.written = layout
    /\ BlobMatrices(fs.tdata, 1) = [k \in 1 .. Len(layout) |-> d[layout[k]]]
    /\ hist.read # <<>> => hist.read = layout

\* C4 as stated: the blob is the mean face and one (basis, projection) pair
\* for each algorithm whose flag is on, in the order PCA, LDA, ICA, nothing
\* for a flag that is off; load reads the same sequence.
C4_PairPerEnabledFlag ==
    fs.exists =>
        BlobHolds(hist.saved, LayoutOf(<<hist.saved.pca, hist.saved.lda, hist.saved.ica>>))

\* C4 as amended: the PCA pair is written whenever any of the three flags is
\* on, the LDA and ICA pairs when their own flag is on; load reads the same
\* sequence.
C4_BlobLayout ==
    fs.exists =>
        BlobHolds(hist.saved,
                  LayoutOf(<<hist.saved.pca \/ hist.saved.lda \/ hist.saved.ica,
                             hist.saved.lda, hist.saved.ica>>))

C4_Witness ==
    /\ fs.exists
    /\ ~hist.saved.pca
    /\ hist.saved.lda
    /\ db.pc = "Loaded"
    /\ hist.read # <<>>

ProjectedQuery(d, a, file) ==
    m_product(rec_params(d, a).W_tr,
              [rows |-> d.num_dimensions, cols |-> 1,
               data |-> [k \in 1 .. d.num_dimensions |->
                    RSub(RInt(file.image.pixels[k]), d.mean_face.data[k])]])

\* the metric the description assigns to algorithm a
AssignedMetric(a) == IF a = "ICA" THEN "m_dist_COS" ELSE "m_dist_L2"

\* C6: for each query and each enabled algorithm the recorded match is the
\* nearest neighbour (first minimum) of the projected query among the
\* algorithm's own projection columns, under L2 for PCA and LDA and COS for
\* ICA (stated for the queries with no NaN distance); a disabled algorithm
\* is not projected, matched or tallied.
C6_MatchIsNearest ==
    rq.called =>
        \A i \in 1 .. Len(rq.queries) : \A a \in AlgSet :
            IF rec_params(db, a).enabled
            THEN NoNaN(rec_params(db, a).P, ProjectedQuery(db, a, rq.testdir[i]), AssignedMetric(a))
                    => IsFirstMinimum(rec_params(db, a).P,
                                      ProjectedQuery(db, a, rq.testdir[i]),
                                      AssignedMetric(a),
                                      rq.queries[i].rec_index[a])
            ELSE /\ rq.queries[i].P_test[a] = NULL
                 /\ ~rq.queries[i].correct[a]
                 /\ rq.num_correct[a] = 0

\* the GPU build's matrix G carries the CPU build's matrix H: both null, or
\* the same shape and H's values in the host buffer or in the device mirror
SameMatrix(G, H) ==
    IF G = NULL_dev \/ H = NULL_dev THEN G = H
    ELSE /\ G.rows = H.rows
         /\ G.cols = H.cols
         /\ G.data = H.data \/ G.data_dev = H.data

\* C8: on the GPU build no gemm or nrm2 reads a device mirror that differs
\* from the matrix's host buffer.
C8_PushBeforeDeviceRead == gk.pc # "idle" => ~gk.stale_dev_read

\* C9: on the GPU build no kernel operation and no caller reads or updates
\* the host buffer of a gemm result while it differs from what the gemm
\* wrote to the device mirror.
C9_PullBeforeHostRead == gk.pc # "idle" => ~gk.stale_host_read

\* C10: every operation answers the same on the GPU build as on the CPU
\* build: the same matrices (null on neither or on both), the same
\* eigenvalues, the same norm.
C10_SameAcrossBackends ==
    gk.pc = "called" =>
        /\ SameMatrix(gk.gpu.C, gk.cpu.C)
        /\ SameMatrix(gk.gpu.eval, gk.cpu.eval)
        /\ gk.gpu.norm = gk.cpu.norm

\* every query was matched, under L2, to a training entry of its own class
\* at distance 0, and the accuracy reported for PCA is 100
AllRecognized ==
    /\ rq.accuracy["PCA"] = RInt(100)
    /\ \A i \in 1 .. Len(rq.queries) :
        /\ rq.queries[i].correct["PCA"]
        /\ db.entries[rq.queries[i].rec_index["PCA"] + 1].ent_class = rq.testdir[i].cls
        /\ DEq(m_dist_L2(ProjectedQuery(db, "PCA", rq.testdir[i]), 0,
                         db.P_pca, rq.queries[i].rec_index["PCA"]),
               DConst(Zero))

\* no image of one class has the pixels of an image of another class
ClassesDiffer(dir) ==
    \A i, j \in 1 .. Len(dir) : dir[i].cls # dir[j].cls => dir[i].image # dir[j].image

\* C7 as stated: recognizing the images a PCA-only database was trained on
\* (3 classes, 2 images each) gives 100% accuracy, every match at distance 0
\* and of the query's class.
C7_SameImagesAllRecognized == rq.called => AllRecognized

\* C7 as amended: the same, for the labelled sets in which no image of one
\* class is pixel for pixel an image of another class.
C7_DistinctClassesAllRecognized == (rq.called /\ ClassesDiffer(hist.dir)) => AllRecognized

\* such a set was trained on and its six images were recognized
C7_Witness ==
    /\ rq.called
    /\ rq.num_test_images = Len(hist.dir)
    /\ Len(rq.queries) = SeqSum(ScenarioShape)
    /\ db.num_classes = Len(ScenarioShape)
    /\ ClassesDiffer(hist.dir)
    /\ AllRecognized

\* the result of the call the client made, and its first operand as it is now
ResultNow == Deref(gk.heap, gk.R)

OperandNow == Deref(gk.heap, gk.A)

\* the mean of row i of M
RowMean(M, i) == RDiv(Sum([k \in 1 .. M.cols |-> elem(M, i, k - 1)]), RInt(M.cols))

\* (1 / d) * A * A' for A = M minus its mean column, d = M.cols - 1 or 1
ColumnsAsObservations(M) ==
    LET d == IF M.cols > 1 THEN M.cols - 1 ELSE 1
    IN  [rows |-> M.rows, cols |-> M.rows,
         data |-> [p \in 1 .. M.rows * M.rows |->
            LET i == (p - 1) % M.rows
                j == (p - 1) \div M.rows
            IN  RDiv(Sum([k \in 1 .. M.cols |->
                        RMul(RSub(elem(M, i, k - 1), RowMean(M, i)),
                             RSub(elem(M, j, k - 1), RowMean(M, j)))]),
                     RInt(d))]]

SecondOperandNow == Deref(gk.heap, gk.B)

\* sum over k of A(i, k) * B(k, j)
RowTimesColumn(A, i, B, j) ==
    Sum([k \in 1 .. A.cols |-> RMul(elem(A, i, k - 1), elem(B, k - 1, j))])

\* C12: m_product(A, B) stops unless A.cols = B.rows; it returns a new
\* A.rows x B.cols matrix C with C(i, j) the sum over k of A(i, k) * B(k, j)
\* and nothing else added; A and B are unchanged; (1 1 0 0) times the
\* column (1 2 3 4) is (3).
C12_Product ==
    gk.op = "m_product" =>
        /\ gk.pc = "aborted" => gk.A0.cols # gk.B0.rows
        /\ gk.pc = "returned" => gk.A0.cols = gk.B0.rows
        /\ gk.pc = "called" =>
            /\ gk.A0.cols = gk.B0.rows
            /\ gk.R.buf \notin {gk.A.buf, gk.B.buf}
            /\ ResultNow.rows = gk.A0.rows
            /\ ResultNow.cols = gk.B0.cols
            /\ \A i \in 0 .. gk.A0.rows - 1, j \in 0 .. gk.B0.cols - 1 :
                elem(ResultNow, i, j) = RowTimesColumn(gk.A0, i, gk.B0, j)
            /\ OperandNow = gk.A0
            /\ SecondOperandNow = gk.B0
            /\ (gk.A0 = TestProductA /\ gk.B0 = TestProductB) =>
                ResultNow = [rows |-> 1, cols |-> 1, data |-> <<RInt(3)>>]

\* the product of test_m_product has been computed
C12_Witness ==
    /\ gk.pc = "called"
    /\ gk.op = "m_product"
    /\ gk.A0 = TestProductA
    /\ gk.B0 = TestProductB
    /\ ResultNow.data = <<RInt(3)>>

\* C13: m_product(M, m_identity(M.cols)) is M: same shape, same elements.
C13_IdentityIsRightNeutral ==
    (gk.pc = "called" /\ gk.op = "m_product" /\ gk.B0 = m_identity(gk.A0.cols)) =>
        ResultNow = gk.A0

\* a 2 x 3 matrix with three different elements times the 3 x 3 identity
C13_Witness ==
    /\ gk.pc = "called"
    /\ gk.op = "m_product"
    /\ gk.A0.rows = 2
    /\ gk.A0.cols = 3
    /\ gk.B0 = m_identity(3)
    /\ Cardinality({gk.A0.data[k] : k \in 1 .. 6}) = 3
    /\ ResultNow = gk.A0

\* C14: m_copy(M) has the rows, columns and elements of M; m_copy_columns(M,
\* begin, end) has the rows of M and end - begin columns, its column k being
\* column begin + k of M; M is unchanged; columns 1 and 2 of the matrix of
\* test_m_copy are what m_copy_columns(A, 1, 3) answers.
C14_CopyAndCopyColumns ==
    gk.pc = "called" =>
        /\ gk.op = "m_copy" => (ResultNow = gk.A0 /\ OperandNow = gk.A0)
        /\ gk.op = "m_copy_columns" =>
            /\ ResultNow.rows = gk.A0.rows
            /\ ResultNow.cols = gk.j - gk.i
            /\ Len(ResultNow.data) = gk.A0.rows * (gk.j - gk.i)
            /\ \A k \in 0 .. gk.j - gk.i - 1 :
                Column(ResultNow, k) = Column(gk.A0, gk.i + k)
            /\ OperandNow = gk.A0
            /\ (gk.A0 = TestCopyA /\ gk.i = 1 /\ gk.j = 3) =>
                ResultNow = FromRows(4, 2, <<2, 3, 11, 10, 7, 6, 14, 15>>)

\* m_copy_columns(A, 1, 3) of test_m_copy has returned
C14_Witness ==
    /\ gk.pc = "called"
    /\ gk.op = "m_copy_columns"
    /\ gk.A0 = TestCopyA
    /\ gk.i = 1
    /\ gk.j = 3
    /\ ResultNow.cols = 2

\* C15: a matrix written with m_fwrite and read with m_fread comes back with
\* the same rows, columns and elements; of two matrices written one after
\* the other the first read ends where the second matrix begins and the
\* second read ends at the end of the stream.
C15_WriteReadRoundTrip ==
    (gk.pc = "called" /\ gk.op = "m_fwrite") =>
        /\ gk.back[1].M = gk.A0
        /\ gk.back[1].pos = Len(m_fwrite(gk.A0)) + 1
        /\ gk.B0 # NULL =>
            /\ Len(gk.back) = 2
            /\ gk.back[2].M = gk.B0
            /\ gk.back[2].pos = Len(gk.stream) + 1

\* a 2 x 3 matrix and then a vector of other elements were written and read
C15_Witness ==
    /\ gk.pc = "called"
    /\ gk.op = "m_fwrite"
    /\ gk.A0.rows = 2
    /\ gk.A0.cols = 3
    /\ gk.B0 # NULL
    /\ gk.B0.rows = 2
    /\ gk.B0.data[1] # gk.A0.data[1]
    /\ Len(gk.back) = 2
    /\ gk.back[2].M = gk.B0


\* the precondition of op(A, B, i, j) as the description gives it: shapes
\* that fit, indices inside the matrix, a square operand
Requires(op, A, B, i, j) ==
    CASE op = "m_product" -> A.cols = B.rows
      [] op \in {"m_add", "m_subtract"} -> A.rows = B.rows /\ A.cols = B.cols
      [] op \in {"m_subtract_columns", "m_subtract_columns_db"} ->
            A.rows = B.rows /\ B.cols = 1
      [] op \in {"m_dist_L2", "m_dist_COS", "m_assign_column"} ->
            A.rows = B.rows /\ 0 <= i /\ i < A.cols /\ 0 <= j /\ j < B.cols
      [] op = "m_copy_columns" -> 0 <= i /\ i < j /\ j <= A.cols
      [] op = "m_image_read" -> A.rows = B.rows /\ 0 <= i /\ i < A.cols
      [] op \in {"m_inverse", "m_eigen", "m_sqrtm"} -> A.rows = A.cols
      [] op = "m_eigen2" -> A.rows = A.cols /\ B.rows = B.cols /\ A.rows = B.rows

\* C16: an operation called with arguments that violate its precondition (a
\* shape mismatch, a column index out of range, a non-square operand) stops
\* at its head and returns nothing.
C16_ViolationsAbort ==
    (gk.pc \in {"returned", "aborted"}
        /\ ~Requires(gk.op, gk.A0, gk.B0, gk.i, gk.j)) => gk.pc = "aborted"


\* C17: load ends with a database to recognize with only from files that
\* hold all a save wrote; from a missing or shortened manifest or blob the
\* process stops instead.
C17_LoadNeedsWholeFiles == db.pc = "Loaded" => fs = db_save(hist.saved)


SquaredDifferences(x, y) ==
    Sum([k \in 1 .. Len(x) |-> RMul(RSub(x[k], y[k]), RSub(x[k], y[k]))])

\* C19: m_dist_L2 of column i of A and column j of B is the sum of the
\* squared differences of their elements, 0 for equal columns and the same
\* with the arguments exchanged; m_dist_L1 is the square root of m_dist_L2;
\* m_dist_COS of a non-zero column and itself is -1.
C19_Distances ==
    (gk.pc = "called" /\ gk.op = "m_dist") =>
        LET x == Column(gk.A0, gk.i)
            y == Column(gk.B0, gk.j)
        IN  /\ gk.dist.L2 = DConst(SquaredDifferences(x, y))
            /\ gk.dist.L2_back = gk.dist.L2
            /\ x = y => gk.dist.L2 = DConst(Zero)
            /\ ~DIsNaN(gk.dist.L1)
            /\ RSign(gk.dist.L1.q) >= 0
            /\ RMul(gk.dist.L1.q, gk.dist.L1.q) = RMul(gk.dist.L2.q, gk.dist.L1.r)
            /\ (x = y /\ \E k \in 1 .. Len(x) : x[k] # Zero) =>
                DEq(gk.dist.COS, DConst(MinusOne))

\* the distances of test_m_distance: L2 is 2, L1 its root, COS is 0
C19_Witness ==
    /\ gk.pc = "called"
    /\ gk.op = "m_dist"
    /\ gk.A0 = TestDistanceM
    /\ gk.B0 = TestDistanceM
    /\ gk.i = 0
    /\ gk.j = 1
    /\ gk.dist.L2 = DConst(RInt(2))
    /\ gk.dist.L1 = [q |-> RInt(2), r |-> RInt(2)]
    /\ DEq(gk.dist.COS, DConst(Zero))

\* C20: m_reshape(M, newNumRows, newNumCols), for rows * cols = newNumRows *
\* newNumCols, is a new newNumRows x newNumCols matrix whose k-th element in
\* row-major order is the k-th element of M in row-major order; M is
\* unchanged.
C20_ReshapeRowMajor ==
    (gk.pc = "called" /\ gk.op = "m_reshape") =>
        /\ gk.A0.rows * gk.A0.cols = gk.i * gk.j
        /\ ResultNow.rows = gk.i
        /\ ResultNow.cols = gk.j
        /\ gk.R.buf # gk.A.buf
        /\ \A k \in 0 .. gk.i * gk.j - 1 :
            elem(ResultNow, k \div gk.j, k % gk.j)
                = elem(gk.A0, k \div gk.A0.cols, k % gk.A0.cols)
        /\ OperandNow = gk.A0

\* a 2 x 3 matrix reshaped to 3 x 2 where the column-major order of the
\* elements would give another matrix
C20_Witness ==
    /\ gk.pc = "called"
    /\ gk.op = "m_reshape"
    /\ gk.A0.rows = 2
    /\ gk.A0.cols = 3
    /\ gk.i = 3
    /\ gk.j = 2
    /\ ResultNow.data # gk.A0.data


\* C21: the identity layer passes its input through: compute answers no
\* model and leaves X as it is, project answers a new matrix with the shape
\* and the elements of X, save writes nothing to the stream and load reads
\* nothing from it, so the matrix that follows the layer in the stream is
\* read from where it was written.
C21_IdentityLayerPassThrough ==
    (gk.pc = "called" /\ gk.op = "IdentityLayer") =>
        /\ gk.model = NULL
        /\ OperandNow = gk.A0
        /\ ResultNow = gk.A0
        /\ gk.R.buf # gk.A.buf
        /\ gk.stream = m_fwrite(gk.A0) \o m_fwrite(gk.B0)
        /\ gk.back[1].M = gk.A0
        /\ gk.back[2].M = gk.B0
        /\ gk.back[2].pos = Len(gk.stream) + 1

\* a 3 x 2 matrix went through the layer and a non-zero element followed it
\* in the stream
C21_Witness ==
    /\ gk.pc = "called"
    /\ gk.op = "IdentityLayer"
    /\ gk.A0.rows = 3
    /\ gk.B0.data[1] # Zero
    /\ gk.back[2].M = gk.B0
    /\ ResultNow = gk.A0


\* C22: the cuBLAS handle is created on the first call of cublas_handle and
\* reused: after any sequence of calls, by whichever operations, cublasCreate
\* has run exactly once, in the first call, and every call that returned
\* returned the handle that call created.
C22_HandleCreatedOnce ==
    gk.calls # <<>> =>
        /\ gk.creates = 1
        /\ gk.calls[1].created
        /\ \A n \in 2 .. Len(gk.calls) : ~gk.calls[n].created
        /\ \A n \in 1 .. Len(gk.calls) :
            gk.calls[n].returned => gk.calls[n].handle = gk.calls[1].handle
        /\ gk.pc = "running" => gk.statics = [init |-> 0, handle |-> gk.calls[1].handle]

\* three calls by three different operations have returned
C22_Witness ==
    /\ gk.pc = "running"
    /\ Len(gk.calls) = 3
    /\ gk.calls[1].caller = "cublas_set_matrix"
    /\ gk.calls[2].caller = "m_product"
    /\ gk.calls[3].caller = "cublas_get_matrix"
    /\ \A n \in 1 .. 3 : gk.calls[n].returned /\ gk.calls[n].handle = 2


\* the matrix that the call `by` of db_train returned has been handed to m_free
FreedByTrain(by) ==
    \E m \in hist.mem.made : \E n \in 1 .. Len(hist.mem.m_free) :
        m.by = by /\ hist.mem.m_free[n].arg = m.at

\* the matrix that the call `by` of db_train returned is held by a field of
\* the database
HeldByDatabase(by) ==
    \E m \in hist.mem.made :
        m.by = by /\ m.at \in {"db->mean_face", "db->W_pca_tr", "db->P_pca",
                                "db->W_lda_tr", "db->P_lda", "db->W_ica_tr", "db->P_ica"}

\* C23 as stated: when db_train has returned, the mean vector and the
\* mean-removed image matrix have both been freed and the database holds a
\* reference to neither.
C23_MeanAndImagesFreed ==
    (db.pc = "Trained" /\ hist.mem.made # {}) =>
        /\ FreedByTrain("get_image_matrix")
        /\ ~HeldByDatabase("get_image_matrix")
        /\ FreedByTrain("m_mean_column")
        /\ ~HeldByDatabase("m_mean_column")
        /\ db.mean_face = NULL

\* C23, amended: when db_train has returned, the mean-removed image matrix
\* has been freed and the database holds no reference to it; the mean vector
\* has not been freed: it is the mean face the database holds from then on.
C23_ImagesFreedMeanKept ==
    (db.pc = "Trained" /\ hist.mem.made # {}) =>
        /\ FreedByTrain("get_image_matrix")
        /\ ~HeldByDatabase("get_image_matrix")
        /\ ~FreedByTrain("m_mean_column")
        /\ HeldByDatabase("m_mean_column")
        /\ db.mean_face = m_mean_column(get_image_matrix(hist.dir))

\* a training with LDA enabled has returned
C23_Witness ==
    /\ db.pc = "Trained"
    /\ db.lda
    /\ Len(hist.mem.m_free) = 3
    /\ db.mean_face # NULL


\* C29: over construct, then train or load or neither, then destruct, with
\* any flags, every m_free is applied to a matrix that was allocated and has
\* not been freed: not to an uninitialised pointer, not to a null pointer,
\* not to the same matrix twice.
C29_FreeOnlyAllocated ==
    \A n \in 1 .. Len(hist.mem.m_free) :
        /\ hist.mem.m_free[n].state = "allocated"
        /\ \A k \in 1 .. n - 1 : hist.mem.m_free[k].arg # hist.mem.m_free[n].arg


\* the projections the database stores: P_pca when any algorithm is enabled,
\* P_lda and P_ica under their own flags
StoredProjections(d) ==
    (IF AnyAlgorithm(d) THEN {d.P_pca} ELSE {})
        \cup (IF d.lda THEN {d.P_lda} ELSE {})
        \cup (IF d.ica THEN {d.P_ica} ELSE {})

\* C24: in every trained or loaded database the position in entries is the
\* column index of every stored projection: each stored projection has
\* num_images columns, entries has num_images elements, and every
\* nearest-neighbour index db_recognize computed is an index into entries.
C24_EntriesAlignWithColumns ==
    db.pc \in {"Trained", "Loaded"} =>
        /\ Len(db.entries) = db.num_images
        /\ \A P \in StoredProjections(db) : P.cols = db.num_images
        /\ \A n \in 1 .. Len(rq.queries) : \A a \in AlgSet :
            rec_params(db, a).enabled =>
                rq.queries[n].rec_index[a] \in 0 .. db.num_images - 1


\* the queries among the first n whose matched training entry, for algorithm
\* a, is of the query's class
MatchedOwnClass(a, n) ==
    {i \in 1 .. n :
        is_same_class(db.entries[rq.queries[i].rec_index[a] + 1].name, rq.testdir[i].name)}

\* num_correct of algorithm a before query n
TallyBefore(a, n) == IF n = 1 THEN 0 ELSE rq.queries[n - 1].num_correct[a]

\* C25: the accuracy of each enabled algorithm is tallied query by query:
\* after every query its num_correct is the number of queries processed so
\* far whose matched training entry has the query's class; it starts at 0,
\* grows by at most 1 per query and never exceeds the number of queries; the
\* value reported is 100 * num_correct / num_test_images.
C25_TallyPerQuery ==
    rq.called =>
        \A a \in AlgSet : rec_params(db, a).enabled =>
            /\ \A n \in 1 .. Len(rq.queries) :
                /\ rq.queries[n].num_correct[a] = Cardinality(MatchedOwnClass(a, n))
                /\ rq.queries[n].num_correct[a] - TallyBefore(a, n) \in {0, 1}
                /\ rq.queries[n].num_correct[a] <= n
            /\ rq.num_correct[a] = Cardinality(MatchedOwnClass(a, rq.num_test_images))
            /\ rq.accuracy[a] = Rat(100 * rq.num_correct[a], rq.num_test_images)

\* six queries were processed; the first matched an entry of its class,
\* the last did not, and half of them did
C25_Witness ==
    /\ rq.called
    /\ db.pca
    /\ Len(rq.queries) = 6
    /\ rq.queries[1].num_correct["PCA"] = 1
    /\ rq.queries[6].num_correct["PCA"] = rq.queries[5].num_correct["PCA"]
    /\ rq.num_correct["PCA"] = 3
    /\ rq.accuracy["PCA"] = Rat(50, 1)


\* the pixels of the n-th test image, as a column, minus the stored mean face
PixelsMinusMean(n) ==
    [rows |-> db.num_dimensions, cols |-> 1,
     data |-> [k \in 1 .. db.num_dimensions |->
        RSub(RInt(rq.testdir[n].image.pixels[k]), db.mean_face.data[k])]]

\* C30: the one column buffer db_recognize reuses for all queries holds, when
\* a query is projected, exactly that query's pixels minus the stored mean
\* face: the mean is subtracted once per query and nothing of the earlier
\* queries is left in the buffer.
C30_QueryBufferFresh ==
    rq.called =>
        \A n \in 1 .. Len(rq.queries) :
            /\ rq.queries[n].T_i = PixelsMinusMean(n)
            /\ \A a \in AlgSet : rec_params(db, a).enabled =>
                rq.queries[n].P_test[a] = m_product(rec_params(db, a).W_tr, PixelsMinusMean(n))

\* six queries went through the buffer, the second with pixels other than
\* the first's, and the mean face is not zero
C30_Witness ==
    /\ rq.called
    /\ Len(rq.queries) = 6
    /\ rq.testdir[1].image.pixels # rq.testdir[2].image.pixels
    /\ rq.queries[1].T_i # rq.queries[2].T_i
    /\ db.mean_face.data[1] # Zero
    /\ rq.queries[6].T_i = PixelsMinusMean(6)


\* C26: m_assign_column(A, i, B, j), for A and B of the same number of rows
\* and valid i and j, makes column i of A equal to column j of B, for every
\* valid j, and leaves the other columns of A and all of B unchanged.
C26_AssignColumn ==
    (gk.pc = "called" /\ gk.op = "m_assign_column") =>
        /\ \A r \in 0 .. gk.A0.rows - 1 : elem(OperandNow, r, gk.i) = elem(gk.B0, r, gk.j)
        /\ \A r \in 0 .. gk.A0.rows - 1 : \A c \in 0 .. gk.A0.cols - 1 :
            c # gk.i => elem(OperandNow, r, c) = elem(gk.A0, r, c)
        /\ SecondOperandNow = gk.B0


\* C27: m_reorder_columns(M, V), V being one row of as many columns as M,
\* returns a matrix of M's shape whose column j is the column of M that the
\* j-th entry of V selects, and reads V and M only inside their buffers.
C27_ReorderColumns ==
    (gk.pc = "called" /\ gk.op = "m_reorder_columns") =>
        /\ gk.R.rows = gk.A0.rows
        /\ gk.R.cols = gk.A0.cols
        /\ \A j \in 0 .. gk.A0.cols - 1 : \A i \in 0 .. gk.A0.rows - 1 :
            elem(ResultNow, i, j) = elem(gk.A0, i, elem(gk.B0, 0, j)[1])
        /\ gk.oob = {}


\* C28: every temporary a kernel operation allocates is released in full,
\* the matrix_t and its data buffer, before the operation returns: when
\* covariance has returned, every block it allocated is either part of the
\* matrix it returned or has been freed.
C28_TemporariesReleased ==
    (gk.pc = "called" /\ gk.op \in {"m_covariance", "m_covariance_db"}) =>
        /\ gk.memory.allocated # {}
        /\ gk.memory.released \subseteq gk.memory.allocated
        /\ gk.memory.allocated \ gk.memory.returned = gk.memory.released

=============================================================================
